---- MODULE Spec2Model ----
(***************************************************************************)
(* A model of the EdgeDB schema catalog (edb/lang/schema/schema.py) and of *)
(* function-call overload resolution (edb/lang/edgeql/compiler/func.py).   *)
(*                                                                         *)
(* Catalog: Spec.  The state is the catalog value the client holds, the    *)
(* outcome of the last operation and whether the receiver of that          *)
(* operation was left as it was.  One action per mutating operation.       *)
(* NamesSpec and TypesSpec are the same machine for a client that works    *)
(* with modules and functions only, and with a hierarchy of types.         *)
(*                                                                         *)
(* Overload resolution: BindSpec.  The state is one call site being        *)
(* compiled by compile_FunctionCall against a catalog that holds a library *)
(* of overloaded functions: the overload group in the order it is          *)
(* iterated, the best match so far and the outcome.                        *)
(***************************************************************************)
EXTENDS Integers, Sequences, FiniteSets, TLC

VARIABLES
    world,      \* the objects the client of the catalog works with
    schema,     \* the catalog value (a Schema) the client holds
    err,        \* what the last catalog operation raised (NoErr: it returned)
    intact,     \* the receiver of the last operation equals its value before the call
    call,       \* the call site being compiled: callee, arguments, context
    funcs,      \* the overload group, in the order it is iterated
    fi,         \* the position in funcs of the candidate tried next
    matched_call,   \* the best BoundCall so far
    outcome,    \* what compile_FunctionCall raised or built
    pc          \* the stage of compile_FunctionCall

vars == <<world, schema, err, intact, call, funcs, fi, matched_call, outcome, pc>>

(***************************************************************************)
(* Bounds.                                                                 *)
(***************************************************************************)
\* Mutating operations are applied while the generation is below MaxGen.
MaxGen == 5
\* A call site has at most MaxArgs positional arguments.
MaxArgs == 2
\* get_descendants is called with max_depth omitted or at most MaxDepth.
MaxDepth == 2

(***************************************************************************)
(* Python values.                                                          *)
(***************************************************************************)
\* An optional value: None, or Some(v).
None == <<>>
Some(v) == <<v>>

NoErr == "ok"

\* immutables.Map: a function with a finite domain.
EmptyMap == <<>>
MapSet(m, k, v) == [x \in DOMAIN m \cup {k} |-> IF x = k THEN v ELSE m[x]]
MapDelete(m, k) == [x \in DOMAIN m \ {k} |-> m[x]]

(***************************************************************************)
(* Names (edb.lang.schema.name).  A fully-qualified name is module::name;  *)
(* the fullname of a function carries a qualifier after the shortname,     *)
(* which tells the overloads of one shortname apart.  A module's own name  *)
(* has no module part.                                                     *)
(***************************************************************************)
NoModule == "-"
NoQual == "-"
Name(module, name, qual) == [module |-> module, name |-> name, qual |-> qual]
SchemaName(name, module) == Name(module, name, NoQual)
ModuleName(name) == Name(NoModule, name, NoQual)
shortname_from_fullname(fullname) == [fullname EXCEPT !.qual = NoQual]

(***************************************************************************)
(* Schema objects: an identity and a class.  The reference-typed fields of *)
(* a class are what get_object_fields() returns for it.                    *)
(***************************************************************************)
Obj(id, cls) == [id |-> id, cls |-> cls]

M1 == Obj(1, "Module")
M2 == Obj(2, "Module")
F1 == Obj(3, "Function")
F2 == Obj(4, "Function")
M3 == Obj(5, "Module")
T1 == Obj(6, "Type")
T2 == Obj(7, "Type")
C1 == Obj(8, "Cast")
T3 == Obj(9, "Type")
T4 == Obj(10, "Type")
T5 == Obj(11, "Type")

Worlds == {"names", "refs"}
WorldObjects(w) ==
    IF w = "names" THEN {M1, M2, F1, F2}
    ELSE IF w = "refs" THEN {M3, T1, T2, C1}
    ELSE {M3, T3, T4, T5}
AllObjects == UNION {WorldObjects(w) : w \in Worlds}

get_object_fields(cls) ==
    CASE cls = "Type" -> <<"bases">>
      [] cls = "Cast" -> <<"from_type", "to_type">>
      [] OTHER -> <<>>

\* An ObjectCollection holds the identities of its members.
Collection(ids) == [coll |-> ids]
IsObjectCollection(ref) == "coll" \in DOMAIN ref

TypeName(obj) ==
    CASE obj.id = 6 -> "T1" [] obj.id = 7 -> "T2" [] obj.id = 9 -> "T3"
      [] obj.id = 10 -> "T4" [] OTHER -> "T5"

\* The names the client gives to an object.
NameChoices(obj) ==
    CASE obj.cls = "Module" /\ obj.id = 5 -> {ModuleName("std")}
      [] obj.cls = "Module" -> {ModuleName("std"), ModuleName("test")}
      [] obj.cls = "Function" ->
            {Name("std", "f", "a"), Name("std", "f", "b"), Name("test", "f", "a")}
      [] obj.cls = "Type" -> {Name("std", TypeName(obj), NoQual)}
      [] OTHER -> {Name("std", "c", NoQual)}

\* The types the client declares as bases of a type.  T3, T4 and T5 form a
\* hierarchy: a type is declared after its bases.
BaseChoices(obj) ==
    CASE obj.id = T3.id -> {}
      [] obj.id = T4.id -> {T3.id}
      [] obj.id = T5.id -> {T3.id, T4.id}
      [] OTHER -> {T1.id, T2.id}

\* The values the client stores in a field of an object.
FieldValues(obj, field) ==
    CASE field = "name" -> NameChoices(obj)
      [] field = "bases" -> {Collection(s) : s \in SUBSET BaseChoices(obj)}
      [] field \in {"from_type", "to_type"} -> {T1, T2}
      [] OTHER -> {}

Fields(obj) ==
    {"name"} \cup {get_object_fields(obj.cls)[i] :
                        i \in DOMAIN get_object_fields(obj.cls)}

\* The field data an object is added with: a name and any of its other fields.
WellTyped(obj, data) == \A f \in DOMAIN data : data[f] \in FieldValues(obj, f)

DataChoices(obj) ==
    {d \in UNION {[fs \cup {"name"} -> UNION {FieldValues(obj, f) : f \in Fields(obj)}]
                    : fs \in SUBSET (Fields(obj) \ {"name"})} : WellTyped(obj, d)}

(***************************************************************************)
(* Schema.__init__ and Schema._replace.                                    *)
(***************************************************************************)
EmptySchema ==
    [modules |-> EmptyMap, id_to_data |-> EmptyMap, id_to_type |-> EmptyMap,
     shortname_to_id |-> EmptyMap, name_to_id |-> EmptyMap, refs_to |-> EmptyMap,
     generation |-> 0]

\* The outcome of a method call on the catalog value self: the receiver as
\* the call leaves it, the value returned and the error raised.
Return(self, ret) == [self |-> self, ret |-> ret, err |-> NoErr]
Raise(self, e) == [self |-> self, ret |-> self, err |-> e]

NewSchema(self, updates) ==
    [k \in DOMAIN self |->
        IF k = "generation" THEN self.generation + 1
        ELSE IF k \in DOMAIN updates THEN updates[k]
        ELSE self[k]]

\* A slip: the derived value is not a new object, the receiver is overwritten.
ReplaceInPlace(self, updates) ==
    [self |-> NewSchema(self, updates), ret |-> NewSchema(self, updates),
     err |-> NoErr]

\* updates holds the keyword arguments that are not None.
Replace(self, updates) == Return(self, NewSchema(self, updates))

(***************************************************************************)
(* Schema._update_obj_name: the name and shortname indices with old_name   *)
(* taken out and new_name put in.                                          *)
(***************************************************************************)
\* A slip: the entry of the shortname stays when its last member leaves.
DropShortnameLeaveEmpty(shortname_to_id, sn_key, obj_id) ==
    MapSet(shortname_to_id, sn_key, shortname_to_id[sn_key] \ {obj_id})

\* A slip: the whole overload group of the shortname is taken out.
DropShortnameKey(shortname_to_id, sn_key, obj_id) ==
    MapDelete(shortname_to_id, sn_key)

\* Lines 106-111: obj_id leaves the overload group of its shortname; the
\* entry goes with its last member.
DropShortname(shortname_to_id, sn_key, obj_id) ==
    LET new_ids == shortname_to_id[sn_key] \ {obj_id}
    IN  IF new_ids # {} THEN MapSet(shortname_to_id, sn_key, new_ids)
        ELSE MapDelete(shortname_to_id, sn_key)

UpdateObjName(self, obj_id, scls, old_name, new_name) ==
    LET stype == scls.cls
        has_sn_cache == stype \in {"Function", "Operator"}
        failed(e) == [err |-> e, name_to_id |-> self.name_to_id,
                      shortname_to_id |-> self.shortname_to_id]
        removed ==
            IF old_name = None THEN failed(NoErr)
            ELSE IF old_name[1] \notin DOMAIN self.name_to_id THEN failed("KeyError")
            ELSE IF ~has_sn_cache
            THEN [err |-> NoErr,
                  name_to_id |-> MapDelete(self.name_to_id, old_name[1]),
                  shortname_to_id |-> self.shortname_to_id]
            ELSE LET sn_key == <<stype, shortname_from_fullname(old_name[1])>>
                 IN  IF sn_key \notin DOMAIN self.shortname_to_id
                     THEN failed("KeyError")
                     ELSE [err |-> NoErr,
                           name_to_id |-> MapDelete(self.name_to_id, old_name[1]),
                           shortname_to_id |->
                               DropShortname(self.shortname_to_id, sn_key, obj_id)]
    IN  IF removed.err # NoErr \/ new_name = None THEN removed
        ELSE IF new_name[1] \in DOMAIN removed.name_to_id
        THEN failed("SchemaError: name is already in the schema")
        ELSE [err |-> NoErr,
              name_to_id |-> MapSet(removed.name_to_id, new_name[1], obj_id),
              shortname_to_id |->
                  IF has_sn_cache
                  THEN LET sn_key == <<stype, shortname_from_fullname(new_name[1])>>
                           ids == IF sn_key \in DOMAIN removed.shortname_to_id
                                  THEN removed.shortname_to_id[sn_key] ELSE {}
                       IN  MapSet(removed.shortname_to_id, sn_key, ids \cup {obj_id})
                  ELSE removed.shortname_to_id]

(***************************************************************************)
(* Schema._update_refs_to.  orig_data and new_data are field maps; None    *)
(* and the empty map are both falsy and are both written EmptyMap, and an  *)
(* identity set that is None is written {} (the code tests only its        *)
(* truth).                                                                 *)
(***************************************************************************)
\* The identities the field of the data refers to (lines 252-276).
FieldRefIds(data, field) ==
    IF data = EmptyMap THEN {}
    ELSE IF field \notin DOMAIN data THEN {}
    ELSE IF IsObjectCollection(data[field]) THEN data[field].coll
    ELSE {data[field].id}

\* Lines 293-306: the referrer is entered under key for every new reference.
AddRefs(mm, key, new_ids, id_set) ==
    [ref_id \in DOMAIN mm \cup new_ids |->
        IF ref_id \notin new_ids THEN mm[ref_id]
        ELSE IF ref_id \notin DOMAIN mm THEN MapSet(EmptyMap, key, id_set)
        ELSE LET refs == mm[ref_id]
                 field_refs == IF key \in DOMAIN refs THEN refs[key] \cup id_set
                               ELSE id_set
             IN  MapSet(refs, key, field_refs)]

\* A slip: the referrer stays entered under a reference that was dropped.
DropRefsKept(mm, key, old_ids, id_set) == mm

\* Lines 308-316: the referrer is taken out for every dropped reference.
DropRefs(mm, key, old_ids, id_set) ==
    [ref_id \in DOMAIN mm |->
        IF ref_id \notin old_ids THEN mm[ref_id]
        ELSE LET refs == mm[ref_id]
                 field_refs == refs[key] \ id_set
             IN  IF field_refs = {} THEN MapDelete(refs, key)
                 ELSE MapSet(refs, key, field_refs)]

\* mm[ref_id][key] of line 310-311 raises KeyError when there is no entry.
DropRefsFails(mm, key, old_ids) ==
    \E ref_id \in old_ids : ref_id \notin DOMAIN mm \/ key \notin DOMAIN mm[ref_id]

\* A slip: the old and the new references are not compared, every new one
\* is entered and every old one is taken out.
UpdateRefsFieldWhole(mm, scls, field, orig_data, new_data) ==
    LET ids == FieldRefIds(new_data, field)
        orig_ids == FieldRefIds(orig_data, field)
        key == <<scls.cls, field>>
        id_set == {scls.id}
        added == IF ids # {} THEN AddRefs(mm, key, ids, id_set) ELSE mm
    IN  IF ids = {} /\ orig_ids = {} THEN [err |-> NoErr, refs_to |-> mm]
        ELSE IF orig_ids # {} /\ DropRefsFails(added, key, orig_ids)
        THEN [err |-> "KeyError", refs_to |-> mm]
        ELSE [err |-> NoErr,
              refs_to |-> IF orig_ids # {} THEN DropRefs(added, key, orig_ids, id_set)
                          ELSE added]

\* One iteration of the loop over the object fields (lines 251-316).
UpdateRefsField(mm, scls, field, orig_data, new_data) ==
    LET ids == FieldRefIds(new_data, field)
        orig_ids == FieldRefIds(orig_data, field)
        key == <<scls.cls, field>>
        id_set == {scls.id}
        new_ids == IF ids # {} /\ orig_ids # {} THEN ids \ orig_ids
                   ELSE IF ids # {} THEN ids ELSE {}
        old_ids == IF ids # {} /\ orig_ids # {} THEN orig_ids \ ids
                   ELSE IF ids # {} THEN {} ELSE orig_ids
        added == IF new_ids # {} THEN AddRefs(mm, key, new_ids, id_set) ELSE mm
    IN  IF ids = {} /\ orig_ids = {} THEN [err |-> NoErr, refs_to |-> mm]
        ELSE IF old_ids # {} /\ DropRefsFails(added, key, old_ids)
        THEN [err |-> "KeyError", refs_to |-> mm]
        ELSE [err |-> NoErr,
              refs_to |-> IF old_ids # {} THEN DropRefs(added, key, old_ids, id_set)
                          ELSE added]

RECURSIVE UpdateRefsFields(_, _, _, _, _)
UpdateRefsFields(mm, scls, objfields, orig_data, new_data) ==
    IF objfields = <<>> THEN [err |-> NoErr, refs_to |-> mm]
    ELSE LET r == UpdateRefsField(mm, scls, Head(objfields), orig_data, new_data)
         IN  IF r.err # NoErr THEN r
             ELSE UpdateRefsFields(r.refs_to, scls, Tail(objfields),
                                   orig_data, new_data)

UpdateRefsTo(self, scls, orig_data, new_data) ==
    LET objfields == get_object_fields(scls.cls)
    IN  IF objfields = <<>> THEN [err |-> NoErr, refs_to |-> self.refs_to]
        ELSE UpdateRefsFields(self.refs_to, scls, objfields, orig_data, new_data)

(***************************************************************************)
(* Schema._add, _delete, discard, delete.                                  *)
(***************************************************************************)
\* A slip: the module of the name is not looked for, so that an object is
\* entered under a module the catalog does not hold.
AddUnderAnyModule(self, id, scls, data) ==
    LET name == data["name"]
        names == UpdateObjName(self, id, scls, None, Some(name))
        refs == UpdateRefsTo(self, scls, EmptyMap, data)
        updates == [id_to_data |-> MapSet(self.id_to_data, id, data),
                    id_to_type |-> MapSet(self.id_to_type, id, scls),
                    name_to_id |-> names.name_to_id,
                    shortname_to_id |-> names.shortname_to_id,
                    refs_to |-> refs.refs_to]
    IN  IF name \in DOMAIN self.name_to_id
        THEN Raise(self, "SchemaError: already present in the schema")
        ELSE IF scls.cls = "Module"
        THEN Replace(self, updates @@ [modules |-> MapSet(self.modules, name, id)])
        ELSE Replace(self, updates)

\* A slip: the name is entered without looking for it first, so that an add
\* under a name in use takes the name over.
AddOverwriting(self, id, scls, data) ==
    [self |-> self,
     ret |-> NewSchema(self,
                [id_to_data |-> MapSet(self.id_to_data, id, data),
                 id_to_type |-> MapSet(self.id_to_type, id, scls),
                 name_to_id |-> MapSet(self.name_to_id, data["name"], id)]),
     err |-> NoErr]

Add(self, id, scls, data) ==
    LET name == data["name"]
        names == UpdateObjName(self, id, scls, None, Some(name))
        refs == UpdateRefsTo(self, scls, EmptyMap, data)
        updates == [id_to_data |-> MapSet(self.id_to_data, id, data),
                    id_to_type |-> MapSet(self.id_to_type, id, scls),
                    name_to_id |-> names.name_to_id,
                    shortname_to_id |-> names.shortname_to_id,
                    refs_to |-> refs.refs_to]
    IN  IF name \in DOMAIN self.name_to_id
        THEN Raise(self, "SchemaError: already present in the schema")
        ELSE IF names.err # NoErr THEN Raise(self, names.err)
        ELSE IF refs.err # NoErr THEN Raise(self, refs.err)
        ELSE IF scls.cls = "Module"
        THEN Replace(self, updates @@ [modules |-> MapSet(self.modules, name, id)])
        ELSE IF ModuleName(name.module) \notin DOMAIN self.modules
        THEN Raise(self, "SchemaModuleNotFoundError")
        ELSE Replace(self, updates)

Delete(self, obj) ==
    IF obj.id \notin DOMAIN self.id_to_data THEN Raise(self, "ItemNotFoundError")
    ELSE
    LET data == self.id_to_data[obj.id]
    IN  IF "name" \notin DOMAIN data THEN Raise(self, "KeyError")
        ELSE
        LET name == data["name"]
            names == UpdateObjName(self, obj.id, self.id_to_type[obj.id],
                                   Some(name), None)
            refs == UpdateRefsTo(self, obj, self.id_to_data[obj.id], EmptyMap)
            updates == [name_to_id |-> names.name_to_id,
                        shortname_to_id |-> names.shortname_to_id,
                        id_to_data |-> MapDelete(self.id_to_data, obj.id),
                        id_to_type |-> MapDelete(self.id_to_type, obj.id),
                        refs_to |-> refs.refs_to]
        IN  IF obj.cls = "Module" /\ name \notin DOMAIN self.modules
            THEN Raise(self, "KeyError")
            ELSE IF names.err # NoErr THEN Raise(self, names.err)
            ELSE IF refs.err # NoErr THEN Raise(self, refs.err)
            ELSE IF obj.cls = "Module"
            THEN Replace(self, updates @@ [modules |-> MapDelete(self.modules, name)])
            ELSE Replace(self, updates)

discard(self, obj) ==
    IF obj.id \in DOMAIN self.id_to_data THEN Delete(self, obj)
    ELSE Return(self, self)

delete(self, obj) == Delete(self, obj)

(***************************************************************************)
(* Schema._set_obj_field, _unset_obj_field, _update_obj.                   *)
(***************************************************************************)
SetObjField(self, obj_id, field, value) ==
    IF obj_id \notin DOMAIN self.id_to_data
    THEN Raise(self, "SchemaError: item is not present in the schema")
    ELSE
    LET data == self.id_to_data[obj_id]
        old_name == IF "name" \in DOMAIN data THEN Some(data["name"]) ELSE None
        names == IF field = "name"
                 THEN UpdateObjName(self, obj_id, self.id_to_type[obj_id],
                                    old_name, Some(value))
                 ELSE [err |-> NoErr]
        new_data == MapSet(data, field, value)
        id_to_data == MapSet(self.id_to_data, obj_id, new_data)
        scls == self.id_to_type[obj_id]
        orig_field_data == IF field \in DOMAIN data
                           THEN MapSet(EmptyMap, field, data[field]) ELSE EmptyMap
        refs == UpdateRefsTo(self, scls, orig_field_data,
                             MapSet(EmptyMap, field, value))
        updates == [id_to_data |-> id_to_data, refs_to |-> refs.refs_to]
    IN  IF names.err # NoErr THEN Raise(self, names.err)
        ELSE IF refs.err # NoErr THEN Raise(self, refs.err)
        ELSE IF field = "name"
        THEN Replace(self, updates @@ [name_to_id |-> names.name_to_id,
                                      shortname_to_id |-> names.shortname_to_id])
        ELSE Replace(self, updates)

UnsetObjField(self, obj_id, field) ==
    IF obj_id \notin DOMAIN self.id_to_data THEN Return(self, self)
    ELSE
    LET data == self.id_to_data[obj_id]
        name == IF "name" \in DOMAIN data THEN Some(data["name"]) ELSE None
        rename == field = "name" /\ name # None
        names == IF rename
                 THEN UpdateObjName(self, obj_id, self.id_to_type[obj_id], name, None)
                 ELSE [err |-> NoErr]
        new_data == MapDelete(data, field)
        id_to_data == MapSet(self.id_to_data, obj_id, new_data)
        scls == self.id_to_type[obj_id]
        refs == UpdateRefsTo(self, scls, MapSet(EmptyMap, field, data[field]),
                             EmptyMap)
        updates == [id_to_data |-> id_to_data, refs_to |-> refs.refs_to]
    IN  IF names.err # NoErr THEN Raise(self, names.err)
        ELSE IF ~rename /\ field \notin DOMAIN data THEN Return(self, self)
        ELSE IF refs.err # NoErr THEN Raise(self, refs.err)
        ELSE IF rename
        THEN Replace(self, updates @@ [name_to_id |-> names.name_to_id,
                                      shortname_to_id |-> names.shortname_to_id])
        ELSE Replace(self, updates)

\* updates maps a field to Some(value), or to None to drop the field.
UpdateObj(self, obj_id, updates) ==
    IF updates = EmptyMap THEN Return(self, self)
    ELSE IF obj_id \notin DOMAIN self.id_to_type THEN Raise(self, "KeyError")
    ELSE
    LET data == IF obj_id \in DOMAIN self.id_to_data THEN self.id_to_data[obj_id]
                ELSE EmptyMap
        old_name == IF "name" \in DOMAIN data THEN Some(data["name"]) ELSE None
        names == IF "name" \in DOMAIN updates
                 THEN UpdateObjName(self, obj_id, self.id_to_type[obj_id],
                                    old_name, updates["name"])
                 ELSE [err |-> NoErr]
        popped == {f \in DOMAIN updates : updates[f] = None}
        new_data == [f \in (DOMAIN data \cup DOMAIN updates) \ popped |->
                        IF f \in DOMAIN updates THEN updates[f][1] ELSE data[f]]
        id_to_data == MapSet(self.id_to_data, obj_id, new_data)
        scls == self.id_to_type[obj_id]
        refs == UpdateRefsTo(self, scls, data, new_data)
        upd == [id_to_data |-> id_to_data, refs_to |-> refs.refs_to]
    IN  IF names.err # NoErr THEN Raise(self, names.err)
        ELSE IF refs.err # NoErr THEN Raise(self, refs.err)
        ELSE IF "name" \in DOMAIN updates
        THEN Replace(self, upd @@ [name_to_id |-> names.name_to_id,
                                  shortname_to_id |-> names.shortname_to_id])
        ELSE Replace(self, upd)

\* The update dictionaries the client passes for an object.
UpdateChoices(obj) ==
    {u \in UNION {[fs -> {None} \cup {Some(v) : v \in
                            UNION {FieldValues(obj, f) : f \in Fields(obj)}}]
                    : fs \in SUBSET Fields(obj)} :
        \A f \in DOMAIN u : u[f] = None \/ u[f][1] \in FieldValues(obj, f)}

(***************************************************************************)
(* Lookups: Schema._get, get, get_functions and get_referrers.              *)
(***************************************************************************)
\* The overload group of a shortname: None when the index has no entry.
\* The tuple the code returns is in the iteration order of a frozenset; the
\* catalog's callers here use it as a set.
GetFunctions_(self, name) ==
    IF <<"Function", name>> \notin DOMAIN self.shortname_to_id THEN None
    ELSE Some({self.id_to_type[oid] :
                    oid \in self.shortname_to_id[<<"Function", name>>]})

\* Schema._get_by_name for a type that is None or Some(class): None, or
\* Some(the object of that name).
GetByName_(self, name, type) ==
    IF name \notin DOMAIN self.name_to_id THEN None
    ELSE LET obj == self.id_to_type[self.name_to_id[name]]
         IN  IF type # None /\ obj.cls # type[1] THEN None ELSE Some(obj)

\* The getters passed to _get: _get_functions, and the closure of Schema.get
\* over its type argument.
FunctionsGetter == [fn |-> "_get_functions", type |-> None]
ByNameGetter(type) == [fn |-> "_get_by_name", type |-> type]

\* getter(self, fqname).
CallGetter(getter, self, name) ==
    IF getter.fn = "_get_functions" THEN GetFunctions_(self, name)
    ELSE GetByName_(self, name, getter.type)

\* A slip: module_aliases is not applied.
FirstLookupUnaliased(name, module_aliases) == name

\* Lines 389-404: the name the getter is first asked for.  name is what
\* split_name gives: the module (NoModule for None) and the shortname, which
\* is the name with its qualifier.  module_aliases maps a module, or NoModule
\* for the key None, to a module; module_aliases = None is written EmptyMap.
\* A name left without module is looked up as it is.
FirstLookup(name, module_aliases) ==
    IF name.module \in DOMAIN module_aliases
    THEN Name(module_aliases[name.module], name.name, name.qual)
    ELSE name

\* A slip: the 'std' lookup is made for every name, qualified or not.
BuiltinLookupAlways(name) == Some(Name("std", name.name, name.qual))

\* Lines 387 and 406-410: the name of the lookup under 'std', made for a name
\* that came without module; None when that lookup is not made.
BuiltinLookup(name) ==
    IF name.module = NoModule THEN Some(Name("std", name.name, name.qual))
    ELSE None

\* The result is Some(what the getter found) or None for the caller's
\* default.
Get_(self, name, getter, module_aliases) ==
    LET first == CallGetter(getter, self, FirstLookup(name, module_aliases))
        builtin == IF BuiltinLookup(name) # None
                   THEN CallGetter(getter, self, BuiltinLookup(name)[1])
                   ELSE None
    IN  IF first # None THEN first
        ELSE IF builtin # None THEN builtin
        ELSE None

\* default = _void is has_default = FALSE.
get_functions(self, name, has_default, module_aliases) ==
    LET got == Get_(self, name, FunctionsGetter, module_aliases)
    IN  IF got # None THEN [err |-> NoErr, found |-> TRUE, funcs |-> got[1]]
        ELSE IF has_default THEN [err |-> NoErr, found |-> FALSE, funcs |-> {}]
        ELSE [err |-> "ItemNotFoundError", found |-> FALSE, funcs |-> {}]

\* Schema.get: obj is Some(the object found), or None with the default or
\* the error.
get(self, name, has_default, module_aliases, type) ==
    LET got == Get_(self, name, ByNameGetter(type), module_aliases)
    IN  IF got # None THEN [err |-> NoErr, obj |-> got]
        ELSE IF has_default THEN [err |-> NoErr, obj |-> None]
        ELSE [err |-> "ItemNotFoundError", obj |-> None]

\* The names the client looks up and the module_aliases it passes: without
\* entry, with an entry for the key None, and with aliases of named modules.
LookupNames ==
    {Name(m, n[1], n[2]) : m \in {NoModule, "std", "test", "t"},
                           n \in {<<"std", NoQual>>, <<"f", NoQual>>, <<"f", "a">>}}
BareNames == {n \in LookupNames : n.module = NoModule}
ModuleAliases ==
    {EmptyMap, NoModule :> "test", NoModule :> "std", "t" :> "test",
     "std" :> "test"}

\* A slip: a field name without class is taken as a filter on the field.
get_referrers_by_field(self, scls, scls_type, field_name) ==
    IF scls.id \notin DOMAIN self.refs_to THEN [err |-> NoErr, referrers |-> {}]
    ELSE
    LET refs == self.refs_to[scls.id]
        keys == {k \in DOMAIN refs :
                    /\ scls_type # None => k[1] = scls_type[1]
                    /\ field_name # None => k[2] = field_name[1]}
        ids == UNION {refs[k] : k \in keys}
    IN  [err |-> NoErr, referrers |-> {self.id_to_type[objid] : objid \in ids}]

\* scls_type and field_name are None or Some(...).
get_referrers(self, scls, scls_type, field_name) ==
    IF scls.id \notin DOMAIN self.refs_to THEN [err |-> NoErr, referrers |-> {}]
    ELSE
    LET refs == self.refs_to[scls.id]
        keys == IF scls_type # None /\ field_name # None
                THEN {k \in DOMAIN refs : k[1] = scls_type[1] /\ k[2] = field_name[1]}
                ELSE IF scls_type # None
                THEN {k \in DOMAIN refs : k[1] = scls_type[1]}
                ELSE DOMAIN refs
        ids == UNION {refs[k] : k \in keys}
    IN  IF scls_type = None /\ field_name # None
        THEN [err |-> "ValueError", referrers |-> {}]
        ELSE IF \E objid \in ids : objid \notin DOMAIN self.id_to_type
        THEN [err |-> "KeyError", referrers |-> {}]
        ELSE [err |-> NoErr, referrers |-> {self.id_to_type[objid] : objid \in ids}]

(***************************************************************************)
(* Schema._find_children and Schema._get_descendants, for objects without  *)
(* virtual children.  The scan reads the bases of every object of the      *)
(* class and the name of every child through the object model; where a     *)
(* base is not in the catalog or a child has no name the call raises; the  *)
(* exception is written "Exception".                                       *)
(***************************************************************************)
FindChildren_(self, scls) ==
    LET objs == {self.id_to_type[i] : i \in
                    {i \in DOMAIN self.id_to_type : self.id_to_type[i].cls = scls.cls}}
        found == {c \in objs : scls.id \in FieldRefIds(self.id_to_data[c.id], "bases")}
    IN  IF \E p \in objs : \E i \in FieldRefIds(self.id_to_data[p.id], "bases") :
                i \notin DOMAIN self.id_to_type
        THEN [err |-> "Exception", names |-> {}]
        ELSE IF \E c \in found : "name" \notin DOMAIN self.id_to_data[c.id]
        THEN [err |-> "Exception", names |-> {}]
        ELSE [err |-> NoErr, names |-> {self.id_to_data[c.id]["name"] : c \in found}]

\* Line 567: whether the children's descendants are collected too.  max_depth
\* is None or Some(k).
DescendFurther(max_depth, depth) == max_depth # None /\ depth < max_depth[1]

RECURSIVE GetDescendants_(_, _, _, _)
GetDescendants_(self, scls, max_depth, depth) ==
    LET child_names == FindChildren_(self, scls)
        children == {get(self, n, FALSE, EmptyMap, Some(scls.cls)).obj[1] :
                        n \in child_names.names}
        deeper == IF DescendFurther(max_depth, depth)
                  THEN {GetDescendants_(self, child, max_depth, depth + 1) :
                            child \in children}
                  ELSE {}
    IN  IF child_names.err # NoErr THEN [err |-> child_names.err, result |-> {}]
        ELSE IF \E d \in deeper : d.err # NoErr
        THEN [err |-> "Exception", result |-> {}]
        ELSE [err |-> NoErr,
              result |-> UNION {d.result : d \in deeper} \cup children]

(***************************************************************************)
(* Overload resolution (func.py).  Types, as far as binding looks at them: *)
(* scalar types, the polymorphic placeholder std::any and arrays of them.  *)
(***************************************************************************)
Ty(name) == [name |-> name, elem |-> "-"]
ArrayOf(t) == [name |-> "array", elem |-> t.name]
NoType == Ty("-")
Int16 == Ty("int16")
Int64 == Ty("int64")
Str == Ty("str")
AnyType == Ty("any")

is_polymorphic(t) == t.name = "any" \/ (t.name = "array" /\ t.elem = "any")
get_subtypes(t) == <<Ty(t.elem)>>

\* The concrete type the placeholder in self stands for when self is matched
\* against other; None when self has no placeholder, other has one, or the
\* two do not fit.
resolve_polymorphic(self, other) ==
    IF ~is_polymorphic(self) \/ is_polymorphic(other) THEN None
    ELSE IF self.name = "any" THEN Some(other)
    ELSE IF other.name = "array" THEN Some(Ty(other.elem))
    ELSE None

to_nonpolymorphic(self, concrete_type) ==
    IF self.name = "any" THEN concrete_type ELSE ArrayOf(concrete_type)

\* Every type is a subtype of the placeholder and of itself.
issubclass(self, parent) == parent.name = "any" \/ self = parent

\* The implicit casts of the catalog.
ImplicitCasts == {<<Int16, Int64>>}
implicitly_castable_to(self, other) == <<self, other>> \in ImplicitCasts

(***************************************************************************)
(* Functions and their parameters.  default is "none" (no default), "value" *)
(* or "empty" (the stored default compiles to an empty set).                *)
(***************************************************************************)
Param(name, kind, type, default) ==
    [name |-> name, kind |-> kind, type |-> type, default |-> default]

Func(id, q, name, language, params, return_type) ==
    [obj |-> Obj(id, "Function"), fullname |-> Name("std", name, q),
     language |-> language, params |-> params, return_type |-> return_type]

Library ==
    { Func(11, "1", "a", "SQL", <<Param("x", "POSITIONAL", Int64, "none")>>, Int64),
      Func(12, "2", "a", "SQL", <<Param("x", "POSITIONAL", Int16, "none")>>, Int16),
      Func(13, "3", "a", "EdgeQL", <<Param("x", "POSITIONAL", AnyType, "none")>>, AnyType),
      Func(21, "1", "z", "SQL", <<>>, Int64),
      Func(22, "2", "z", "EdgeQL", <<>>, Str),
      Func(23, "3", "z", "SQL", <<Param("x", "POSITIONAL", Int64, "value")>>, Int64),
      Func(24, "4", "z", "EdgeQL",
           <<Param("x", "POSITIONAL", AnyType, "value"),
             Param("y", "NAMED_ONLY", Str, "value")>>, Int64),
      Func(31, "1", "f", "EdgeQL",
           <<Param("x", "POSITIONAL", Int64, "none"),
             Param("y", "NAMED_ONLY", Str, "value")>>, Str),
      Func(32, "2", "f", "SQL",
           <<Param("y", "POSITIONAL", Int64, "none"),
             Param("x", "POSITIONAL", Int64, "value"),
             Param("z", "NAMED_ONLY", Int64, "none")>>, Int64),
      Func(33, "3", "f", "EdgeQL",
           <<Param("x", "POSITIONAL", Int64, "value"),
             Param("y", "NAMED_ONLY", Str, "value"),
             Param("z", "NAMED_ONLY", Str, "empty")>>, Str),
      Func(41, "1", "v", "SQL",
           <<Param("x", "POSITIONAL", Int64, "none"),
             Param("rest", "VARIADIC", ArrayOf(Int64), "none")>>, Int64),
      Func(42, "2", "v", "EdgeQL",
           <<Param("rest", "VARIADIC", ArrayOf(AnyType), "none")>>, AnyType),
      Func(43, "3", "v", "EdgeQL",
           <<Param("x", "POSITIONAL", Str, "value"),
             Param("y", "VARIADIC", ArrayOf(Str), "none"),
             Param("z", "NAMED_ONLY", Int64, "value")>>, Str),
      Func(91, "1", "s", "SQL",
           <<Param("y", "VARIADIC", ArrayOf(Str), "none")>>, Str),
      Func(51, "1", "p", "SQL", <<Param("y", "NAMED_ONLY", Str, "value")>>, Int64),
      Func(52, "2", "p", "EdgeQL", <<Param("y", "NAMED_ONLY", Str, "value")>>, Str),
      Func(53, "3", "p", "EdgeQL",
           <<Param("x", "POSITIONAL", AnyType, "value"),
             Param("y", "NAMED_ONLY", Str, "value")>>, Int64),
      Func(61, "1", "g", "EdgeQL",
           <<Param("x", "POSITIONAL", AnyType, "none"),
             Param("r", "VARIADIC", ArrayOf(AnyType), "none"),
             Param("y", "NAMED_ONLY", AnyType, "none")>>, ArrayOf(AnyType)),
      Func(62, "2", "g", "SQL",
           <<Param("x", "POSITIONAL", AnyType, "none"),
             Param("y", "NAMED_ONLY", Str, "value")>>, AnyType),
      Func(71, "1", "w", "EdgeQL",
           <<Param("n1", "NAMED_ONLY", Int64, "value"),
             Param("n2", "NAMED_ONLY", Int64, "value"),
             Param("n3", "NAMED_ONLY", Int64, "value"),
             Param("n4", "NAMED_ONLY", Int64, "value"),
             Param("n5", "NAMED_ONLY", Int64, "value"),
             Param("n6", "NAMED_ONLY", Int64, "value"),
             Param("y", "NAMED_ONLY", Str, "value"),
             Param("z", "NAMED_ONLY", Str, "value")>>, Int64),
      Func(81, "1", "u", "SQL", <<>>, AnyType) }

FuncOf(obj) == CHOOSE d \in Library : d.obj = obj

\* FuncParameterList.as_pg_params: the NAMED_ONLY parameters in declaration
\* order, then the POSITIONAL ones, then the VARIADIC one; and whether a
\* POSITIONAL or NAMED_ONLY parameter has no default.
as_pg_params(params) ==
    [params |-> SelectSeq(params, LAMBDA q : q.kind = "NAMED_ONLY")
                \o SelectSeq(params, LAMBDA q : q.kind = "POSITIONAL")
                \o SelectSeq(params, LAMBDA q : q.kind = "VARIADIC"),
     has_param_wo_default |->
        \E i \in DOMAIN params :
            params[i].kind # "VARIADIC" /\ params[i].default = "none"]

(***************************************************************************)
(* Argument expressions and bound arguments.                               *)
(***************************************************************************)
Val(tag, idx, name, ty, value) ==
    [tag |-> tag, idx |-> idx, name |-> name, ty |-> ty, value |-> value]
\* The idx-th positional argument of the call, the named argument name.
PosArg(idx) == Val("arg", idx, "-", NoType, <<>>)
NamedArg(name) == Val("kwarg", 0, name, NoType, <<>>)
\* new_empty_set(scls=ty, alias=name), and the parameter's stored default.
EmptySetDefault(name, ty) == Val("empty_set", 0, name, ty, <<>>)
IrDefault(name, ty) == Val("ir_default", 0, name, ty, <<>>)
\* irast.BytesConstant(value): value as the code points of its text.
BytesConstant(value) == Val("bytes", 0, "-", Ty("bytes"), value)

\* BoundCall: func and args are None or Some(...).
BoundCall(func, args, return_type, used_implicit_casts, has_empty_variadic) ==
    [func |-> func, args |-> args, return_type |-> return_type,
     used_implicit_casts |-> used_implicit_casts,
     has_empty_variadic |-> has_empty_variadic]
NO_MATCH == BoundCall(None, None, NoType, FALSE, FALSE)

\* What try_bind_func_args gives: a BoundCall, or an error raised.
Bound(bcall) == [err |-> NoErr, call |-> bcall]
BindError(e) == [err |-> e, call |-> NO_MATCH]

(***************************************************************************)
(* try_bind_func_args.  st is the function's local state: the parameter    *)
(* and argument positions pi and ai, bound_param_args (a value of None is  *)
(* a parameter to populate from its default), and the flags.  st.matched   *)
(* turns FALSE where the code returns _NO_MATCH.                           *)
(***************************************************************************)
InitialBindState ==
    [matched |-> TRUE, bound_param_args |-> <<>>, pi |-> 0, ai |-> 0,
     matched_kwargs |-> 0, populate_defaults |-> FALSE,
     has_empty_variadic |-> FALSE, used_implicit_cast |-> FALSE,
     resolved_poly_base_type |-> None, err |-> NoErr]

NoMatchAt(st) == [st EXCEPT !.matched = FALSE]
\* A slip: an argument is bound in front of the ones bound before it.
BindArgInFront(st, param, val) ==
    [st EXCEPT !.bound_param_args = <<[param |-> param, val |-> val]>> \o @]

\* bound_param_args.append((param, arg_val)).
BindArg(st, param, val) ==
    [st EXCEPT !.bound_param_args = Append(@, [param |-> param, val |-> val])]

\* A slip: the placeholder is looked for in the type of the parameter.
CheckTypeByParameter(st, arg_type, param_type, in_polymorphic_func) ==
    IF /\ is_polymorphic(param_type)
       /\ in_polymorphic_func
       /\ resolve_polymorphic(param_type, arg_type) # None
    THEN [ok |-> TRUE, st |-> st]
    ELSE IF issubclass(arg_type, param_type) THEN [ok |-> TRUE, st |-> st]
    ELSE IF implicitly_castable_to(arg_type, param_type)
    THEN [ok |-> TRUE, st |-> [st EXCEPT !.used_implicit_cast = TRUE]]
    ELSE [ok |-> FALSE, st |-> st]

\* _check_type (lines 146-161).
CheckType(st, arg_type, param_type, in_polymorphic_func) ==
    IF /\ is_polymorphic(arg_type)
       /\ in_polymorphic_func
       /\ resolve_polymorphic(arg_type, param_type) # None
    THEN [ok |-> TRUE, st |-> st]
    ELSE IF issubclass(arg_type, param_type) THEN [ok |-> TRUE, st |-> st]
    ELSE IF implicitly_castable_to(arg_type, param_type)
    THEN [ok |-> TRUE, st |-> [st EXCEPT !.used_implicit_cast = TRUE]]
    ELSE [ok |-> FALSE, st |-> st]

\* A slip: a later resolution of the placeholder takes the place of the
\* first.
CheckAnyOverwriting(st, arg_type, param_type, in_polymorphic_func) ==
    IF in_polymorphic_func /\ is_polymorphic(arg_type) /\ param_type = arg_type
    THEN [ok |-> TRUE, st |-> st]
    ELSE IF ~is_polymorphic(param_type) THEN [ok |-> TRUE, st |-> st]
    ELSE IF resolve_polymorphic(param_type, arg_type) = None
    THEN [ok |-> FALSE, st |-> st]
    ELSE [ok |-> TRUE,
          st |-> [st EXCEPT !.resolved_poly_base_type =
                                resolve_polymorphic(param_type, arg_type)]]

\* _check_any (lines 163-182).
CheckAny(st, arg_type, param_type, in_polymorphic_func) ==
    IF in_polymorphic_func /\ is_polymorphic(arg_type) /\ param_type = arg_type
    THEN [ok |-> TRUE, st |-> st]
    ELSE IF ~is_polymorphic(param_type) THEN [ok |-> TRUE, st |-> st]
    ELSE LET resolved == resolve_polymorphic(param_type, arg_type)
         IN  IF resolved = None THEN [ok |-> FALSE, st |-> st]
             ELSE IF st.resolved_poly_base_type = None
             THEN [ok |-> TRUE, st |-> [st EXCEPT !.resolved_poly_base_type = resolved]]
             ELSE [ok |-> st.resolved_poly_base_type = resolved, st |-> st]

\* "if not _check_type(...): return _NO_MATCH; if not _check_any(...): return
\* _NO_MATCH; bound_param_args.append((param, arg_val))".
CheckAndBind(st, arg, param, param_type, in_polymorphic_func) ==
    LET t == CheckType(st, arg.type, param_type, in_polymorphic_func)
        a == CheckAny(t.st, arg.type, param_type, in_polymorphic_func)
    IN  IF ~t.ok THEN NoMatchAt(t.st)
        ELSE IF ~a.ok THEN NoMatchAt(a.st)
        ELSE BindArg(a.st, param, Some(arg.val))

\* Step 1 (lines 233-263): bind NAMED ONLY arguments.
RECURSIVE BindNamedOnly(_, _, _, _)
BindNamedOnly(st, params, kwargs, in_polymorphic_func) ==
    IF st.pi >= Len(params) THEN st
    ELSE
    LET param == params[st.pi + 1]
        st1 == [st EXCEPT !.pi = @ + 1]
    IN  IF param.kind # "NAMED_ONLY" THEN st
        ELSE IF param.name \in DOMAIN kwargs
        THEN LET b == CheckAndBind([st1 EXCEPT !.matched_kwargs = @ + 1],
                                   kwargs[param.name], param, param.type,
                                   in_polymorphic_func)
             IN  IF ~b.matched THEN b
                 ELSE BindNamedOnly(b, params, kwargs, in_polymorphic_func)
        ELSE IF param.default = "none" THEN NoMatchAt(st1)
        ELSE BindNamedOnly(
                BindArg([st1 EXCEPT !.populate_defaults = TRUE], param, None),
                params, kwargs, in_polymorphic_func)

\* A slip: the arguments after the first one of the VARIADIC parameter are
\* bound to it unchecked.
RECURSIVE BindVariadicRestUnchecked(_, _, _, _, _, _)
BindVariadicRestUnchecked(st, args, k, param, var_type, in_polymorphic_func) ==
    IF k > Len(args) THEN st
    ELSE BindVariadicRestUnchecked(BindArg(st, param, Some(args[k].val)), args,
                                   k + 1, param, var_type, in_polymorphic_func)

\* Lines 295-300: the remaining positional arguments go to the VARIADIC
\* parameter.
RECURSIVE BindVariadicRest(_, _, _, _, _, _)
BindVariadicRest(st, args, k, param, var_type, in_polymorphic_func) ==
    IF k > Len(args) THEN st
    ELSE LET b == CheckAndBind(st, args[k], param, var_type, in_polymorphic_func)
         IN  IF ~b.matched THEN b
             ELSE BindVariadicRest(b, args, k + 1, param, var_type,
                                   in_polymorphic_func)

\* Step 2 (lines 269-312): bind POSITIONAL arguments.  Reaching a NAMED ONLY
\* parameter here raises RuntimeError (st.err).
RECURSIVE BindPositional(_, _, _, _)
BindPositional(st, params, args, in_polymorphic_func) ==
    IF st.ai >= Len(args) THEN st
    ELSE
    LET arg == args[st.ai + 1]
        st1 == [st EXCEPT !.ai = @ + 1]
    IN  IF st1.pi >= Len(params) THEN NoMatchAt(st1)
        ELSE
        LET param == params[st1.pi + 1]
            st2 == [st1 EXCEPT !.pi = @ + 1]
        IN  IF param.kind = "NAMED_ONLY"
            THEN [NoMatchAt(st2) EXCEPT !.err = "RuntimeError"]
            ELSE IF param.kind = "VARIADIC"
            THEN LET var_type == get_subtypes(param.type)[1]
                     b == CheckAndBind(st2, arg, param, var_type,
                                       in_polymorphic_func)
                 IN  IF ~b.matched THEN b
                     ELSE BindVariadicRest(b, args, b.ai + 1, param, var_type,
                                           in_polymorphic_func)
            ELSE LET b == CheckAndBind(st2, arg, param, param.type,
                                       in_polymorphic_func)
                 IN  IF ~b.matched THEN b
                     ELSE BindPositional(b, params, args, in_polymorphic_func)

\* A slip: a VARIADIC parameter left without arguments is passed over without
\* a note of it.
RECURSIVE BindRemainingUnflagged(_, _, _)
BindRemainingUnflagged(st, params, pi) ==
    IF pi >= Len(params) THEN st
    ELSE IF params[pi + 1].kind = "POSITIONAL"
    THEN IF params[pi + 1].default = "none" THEN NoMatchAt(st)
         ELSE BindRemainingUnflagged(
                BindArg([st EXCEPT !.populate_defaults = TRUE], params[pi + 1], None),
                params, pi + 1)
    ELSE IF params[pi + 1].kind = "VARIADIC"
    THEN BindRemainingUnflagged(st, params, pi + 1)
    ELSE [NoMatchAt(st) EXCEPT !.err = "RuntimeError"]

\* A slip: a POSITIONAL parameter left without argument is marked for its
\* default whether it has one or not.
RECURSIVE BindRemainingAnyDefault(_, _, _)
BindRemainingAnyDefault(st, params, pi) ==
    IF pi >= Len(params) THEN st
    ELSE IF params[pi + 1].kind = "POSITIONAL"
    THEN BindRemainingAnyDefault(
            BindArg([st EXCEPT !.populate_defaults = TRUE], params[pi + 1], None),
            params, pi + 1)
    ELSE IF params[pi + 1].kind = "VARIADIC"
    THEN BindRemainingAnyDefault([st EXCEPT !.has_empty_variadic = TRUE],
                                 params, pi + 1)
    ELSE [NoMatchAt(st) EXCEPT !.err = "RuntimeError"]

\* Step 3 (lines 314-332): the parameters no argument was bound to.
RECURSIVE BindRemaining(_, _, _)
BindRemaining(st, params, pi) ==
    IF pi >= Len(params) THEN st
    ELSE
    LET param == params[pi + 1]
    IN  IF param.kind = "POSITIONAL"
        THEN IF param.default = "none" THEN NoMatchAt(st)
             ELSE BindRemaining(
                    BindArg([st EXCEPT !.populate_defaults = TRUE], param, None),
                    params, pi + 1)
        ELSE IF param.kind = "VARIADIC"
        THEN BindRemaining([st EXCEPT !.has_empty_variadic = TRUE], params, pi + 1)
        ELSE [NoMatchAt(st) EXCEPT !.err = "RuntimeError"]

\* A slip: the bits are counted from one.
SetBitOneBased(mask, i) ==
    IF (mask \div (2 ^ (i + 1))) % 2 = 1 THEN mask ELSE mask + 2 ^ (i + 1)

\* defaults_mask |= 1 << i
SetBit(mask, i) == IF (mask \div (2 ^ i)) % 2 = 1 THEN mask ELSE mask + 2 ^ i
TestBit(mask, i) == (mask \div (2 ^ i)) % 2 = 1

\* A slip: a default whose placeholder was not resolved is built with the
\* placeholder as its type.
RECURSIVE PopulateDefaultsUnresolved(_, _, _, _, _)
PopulateDefaultsUnresolved(bound_param_args, i, defaults_mask, edgeql_func, resolved) ==
    IF i >= Len(bound_param_args)
    THEN [err |-> NoErr, bound_param_args |-> bound_param_args,
          defaults_mask |-> defaults_mask]
    ELSE IF bound_param_args[i + 1].val # None
    THEN PopulateDefaultsUnresolved(bound_param_args, i + 1, defaults_mask,
                                    edgeql_func, resolved)
    ELSE PopulateDefaultsUnresolved(
            [bound_param_args EXCEPT ![i + 1] =
                [param |-> bound_param_args[i + 1].param,
                 val |-> Some(IF edgeql_func
                              THEN EmptySetDefault(bound_param_args[i + 1].param.name,
                                                   bound_param_args[i + 1].param.type)
                              ELSE IrDefault(bound_param_args[i + 1].param.name,
                                             bound_param_args[i + 1].param.type))]],
            i + 1, SetBit(defaults_mask, i), edgeql_func, resolved)

\* Lines 334-384: every bound parameter without a value gets its default and
\* its bit in the mask.  i counts from 0 as in the code.
RECURSIVE PopulateDefaults(_, _, _, _, _)
PopulateDefaults(bound_param_args, i, defaults_mask, edgeql_func, resolved) ==
    IF i >= Len(bound_param_args)
    THEN [err |-> NoErr, bound_param_args |-> bound_param_args,
          defaults_mask |-> defaults_mask]
    ELSE
    LET param == bound_param_args[i + 1].param
        val == bound_param_args[i + 1].val
        empty_default == edgeql_func \/ param.default = "empty"
        default_type == IF empty_default /\ param.type.name = "any"
                        THEN resolved[1] ELSE param.type
        default == IF edgeql_func THEN EmptySetDefault(param.name, default_type)
                   ELSE IrDefault(param.name, default_type)
    IN  IF val # None
        THEN PopulateDefaults(bound_param_args, i + 1, defaults_mask,
                              edgeql_func, resolved)
        ELSE IF empty_default /\ param.type.name = "any" /\ resolved = None
        THEN [err |-> "EdgeQLError: could not resolve std::any type",
              bound_param_args |-> bound_param_args,
              defaults_mask |-> SetBit(defaults_mask, i)]
        ELSE PopulateDefaults(
                [bound_param_args EXCEPT ![i + 1] =
                    [param |-> param, val |-> Some(default)]],
                i + 1, SetBit(defaults_mask, i), edgeql_func, resolved)

\* int.to_bytes(length, 'little'): OverflowError when the value does not fit.
to_bytes_little(n, length) ==
    IF n >= 256 ^ length THEN [err |-> "OverflowError", bytes |-> <<>>]
    ELSE [err |-> NoErr,
          bytes |-> [j \in 1..length |-> (n \div (256 ^ (j - 1))) % 256]]

\* bytes.decode('ascii'): the code points of the text, UnicodeDecodeError for
\* a byte that is not ASCII.
decode_ascii(bytes) ==
    IF \E j \in DOMAIN bytes : bytes[j] >= 128
    THEN [err |-> "UnicodeDecodeError", text |-> <<>>]
    ELSE [err |-> NoErr, text |-> bytes]

\* The text r"\x00": a backslash, x, 0, 0.
RawZeroByteText == <<92, 120, 48, 48>>

\* ctx.func is None, or Some of the enclosing function: the names of its
\* parameters and whether its parameter list is polymorphic.
InPolymorphicFunc(ctx) == ctx.func # None /\ ctx.func[1].polymorphic

\* Lines 386-416: the defaults bitmask goes first in the arguments of an
\* EdgeQL function, the return type is resolved, the BoundCall is built.
FinishBind(func, s3, d, text) ==
    LET edgeql_func == func.language = "EdgeQL"
        bound == [k \in DOMAIN d.bound_param_args |-> d.bound_param_args[k].val[1]]
    IN  IF edgeql_func /\ text.err # NoErr THEN BindError(text.err)
        ELSE IF is_polymorphic(func.return_type) /\ s3.resolved_poly_base_type = None
        THEN Bound(NO_MATCH)
        ELSE Bound(BoundCall(
                Some(func),
                Some(IF edgeql_func THEN <<BytesConstant(text.text)>> \o bound
                     ELSE bound),
                IF is_polymorphic(func.return_type)
                THEN to_nonpolymorphic(func.return_type, s3.resolved_poly_base_type[1])
                ELSE func.return_type,
                s3.used_implicit_cast, s3.has_empty_variadic))

\* Lines 386-394: defaults_mask.to_bytes(nparams // 8 + 1, 'little') and its
\* decode('ascii').
EncodeMask(func, nparams, s3, d, bm) ==
    IF func.language = "EdgeQL" /\ bm.err # NoErr THEN BindError(bm.err)
    ELSE FinishBind(func, s3, d, decode_ascii(bm.bytes))

\* Lines 334-384, entered with the state step 3 leaves.
BindDefaults(func, nparams, s3, d) ==
    IF d.err # NoErr THEN BindError(d.err)
    ELSE EncodeMask(func, nparams, s3, d,
                    to_bytes_little(d.defaults_mask, (nparams \div 8) + 1))

\* Lines 314-384, entered with the state step 2 leaves.
BindStep3(func, nparams, s3) ==
    IF s3.err # NoErr THEN BindError(s3.err)
    ELSE IF ~s3.matched THEN Bound(NO_MATCH)
    ELSE BindDefaults(func, nparams, s3,
            IF s3.populate_defaults
            THEN PopulateDefaults(s3.bound_param_args, 0, 0,
                                  func.language = "EdgeQL",
                                  s3.resolved_poly_base_type)
            ELSE [err |-> NoErr, bound_param_args |-> s3.bound_param_args,
                  defaults_mask |-> 0])

\* Lines 269-332, entered with the state step 1 leaves.
BindStep2(func, params, s2) ==
    IF s2.err # NoErr THEN BindError(s2.err)
    ELSE IF ~s2.matched THEN Bound(NO_MATCH)
    ELSE BindStep3(func, Len(params), BindRemaining(s2, params, s2.pi))

\* A slip: named arguments that no parameter took are let through.
BindStep1AnyKwargs(args, kwargs, func, params, in_polymorphic_func, s1) ==
    IF ~s1.matched THEN Bound(NO_MATCH)
    ELSE BindStep2(func, params,
                   BindPositional(s1, params, args, in_polymorphic_func))

\* Lines 233-267: step 1, then "if matched_kwargs != len(kwargs): return
\* _NO_MATCH".
BindStep1(args, kwargs, func, params, in_polymorphic_func, s1) ==
    IF ~s1.matched THEN Bound(NO_MATCH)
    ELSE IF s1.matched_kwargs # Cardinality(DOMAIN kwargs) THEN Bound(NO_MATCH)
    ELSE BindStep2(func, params,
                   BindPositional(s1, params, args, in_polymorphic_func))

\* Lines 215-231: a call without arguments cannot match a function that has a
\* parameter without a default.
BindPgParams(args, kwargs, func, in_polymorphic_func, pg_params) ==
    IF args = <<>> /\ kwargs = EmptyMap /\ pg_params.has_param_wo_default
    THEN Bound(NO_MATCH)
    ELSE BindStep1(args, kwargs, func, pg_params.params, in_polymorphic_func,
                   BindNamedOnly(InitialBindState, pg_params.params, kwargs,
                                 in_polymorphic_func))

\* Lines 215-416, for a function with parameters.
BindParams(args, kwargs, func, ctx) ==
    BindPgParams(args, kwargs, func, InPolymorphicFunc(ctx),
                 as_pg_params(func.params))

\* A slip: a function without parameters matches whatever the call passes.
TryBindIgnoringArgs(args, kwargs, func, ctx) ==
    IF func.params = <<>>
    THEN IF func.language = "EdgeQL"
         THEN Bound(BoundCall(Some(func), Some(<<BytesConstant(RawZeroByteText)>>),
                              func.return_type, FALSE, FALSE))
         ELSE Bound(BoundCall(Some(func), Some(<<>>), func.return_type,
                              FALSE, FALSE))
    ELSE BindParams(args, kwargs, func, ctx)

\* try_bind_func_args.  args is the list of the positional arguments and
\* kwargs the map of the named ones, each a type and an expression.
TryBindFuncArgs(args, kwargs, func, ctx) ==
    LET edgeql_func == func.language = "EdgeQL"
        no_args_call == args = <<>> /\ kwargs = EmptyMap
    IN  IF func.params = <<>>
        THEN IF no_args_call
             THEN IF edgeql_func
                  THEN Bound(BoundCall(Some(func), Some(<<BytesConstant(RawZeroByteText)>>),
                                       func.return_type, FALSE, FALSE))
                  ELSE Bound(BoundCall(Some(func), Some(<<>>), func.return_type,
                                       FALSE, FALSE))
             ELSE Bound(NO_MATCH)
        ELSE BindParams(args, kwargs, func, ctx)

(***************************************************************************)
(* compile_FunctionCall, one step per stage: the name is resolved to its   *)
(* overload group, every candidate of the group is tried in turn, the call *)
(* node is built.                                                          *)
(***************************************************************************)
\* A slip: the first match is kept whatever the later ones are.
SelectFirstCall(matched, bcall, args, kwargs) ==
    IF bcall.args = None THEN [err |-> NoErr, matched_call |-> matched]
    ELSE IF matched.args = None THEN [err |-> NoErr, matched_call |-> bcall]
    ELSE IF args = <<>> /\ kwargs = EmptyMap
    THEN [err |-> "EdgeQLError: function is not unique", matched_call |-> matched]
    ELSE [err |-> NoErr, matched_call |-> matched]

\* A slip: a later match takes the place of an earlier one that is no better.
SelectCallLatest(matched, bcall, args, kwargs) ==
    IF bcall.args = None THEN [err |-> NoErr, matched_call |-> matched]
    ELSE IF matched.args = None THEN [err |-> NoErr, matched_call |-> bcall]
    ELSE LET best == IF matched.used_implicit_casts
                        \/ ~bcall.used_implicit_casts
                     THEN bcall ELSE matched
         IN  IF args = <<>> /\ kwargs = EmptyMap
             THEN [err |-> "EdgeQLError: function is not unique",
                   matched_call |-> best]
             ELSE [err |-> NoErr, matched_call |-> best]

\* A slip: a second match of a call without arguments is not reported.
SelectCallSilently(matched, bcall, args, kwargs) ==
    IF bcall.args = None THEN [err |-> NoErr, matched_call |-> matched]
    ELSE IF matched.args = None THEN [err |-> NoErr, matched_call |-> bcall]
    ELSE [err |-> NoErr,
          matched_call |-> IF matched.used_implicit_casts /\ ~bcall.used_implicit_casts
                           THEN bcall ELSE matched]

\* Lines 99-112: what one candidate's BoundCall does to the best match.
SelectCall(matched, bcall, args, kwargs) ==
    IF bcall.args = None THEN [err |-> NoErr, matched_call |-> matched]
    ELSE IF matched.args = None THEN [err |-> NoErr, matched_call |-> bcall]
    ELSE LET best == IF matched.used_implicit_casts
                        /\ ~bcall.used_implicit_casts
                     THEN bcall ELSE matched
         IN  IF args = <<>> /\ kwargs = EmptyMap
             THEN [err |-> "EdgeQLError: function is not unique",
                   matched_call |-> best]
             ELSE [err |-> NoErr, matched_call |-> best]

\* irast.FunctionCall(func, args, type, has_empty_variadic) of lines 119-125.
FunctionCallNode(matched) ==
    [func |-> matched.func[1], args |-> matched.args[1],
     type |-> matched.return_type,
     has_empty_variadic |-> matched.has_empty_variadic]

\* The catalog the calls are compiled against: module std and the library.
RECURSIVE AddLibrary(_, _)
AddLibrary(self, defs) ==
    IF defs = {} THEN self
    ELSE LET d == CHOOSE x \in defs : TRUE
         IN  AddLibrary(Add(self, d.obj.id, d.obj, [name |-> d.fullname]).ret,
                        defs \ {d})

LibrarySchema ==
    AddLibrary(Add(EmptySchema, M1.id, M1, [name |-> ModuleName("std")]).ret, Library)

\* The call sites.  expr.func is a bare identifier or a (module, name) pair.
Callee(bare, module, name) == [bare |-> bare, module |-> module, name |-> name]
Callees ==
    {Callee(TRUE, NoModule, n) : n \in {"a", "z", "f", "v", "p", "g", "w", "u", "s"}}
        \cup {Callee(FALSE, "std", "z")}

\* The context of the call site: ctx.func and the module aliases.
CtxTop == [func |-> None, modaliases |-> EmptyMap]
CtxPoly == [func |-> Some([params |-> {"z"}, polymorphic |-> TRUE]),
            modaliases |-> EmptyMap]
Contexts == {CtxTop, CtxPoly}

ArgTypes(ctx) == IF InPolymorphicFunc(ctx) THEN {Int64, AnyType}
                 ELSE {Int16, Int64, Str}
KwargNames == {"y", "z"}
KwargTypes == {Int64, Str}

\* compile_call_args: every argument with its inferred type.
ArgLists(ctx) ==
    UNION {{[i \in 1..n |-> [type |-> ts[i], val |-> PosArg(i)]] :
                ts \in [1..n -> ArgTypes(ctx)]} : n \in 0..MaxArgs}
KwargMaps ==
    UNION {{[k \in ks |-> [type |-> ts[k], val |-> NamedArg(k)]] :
                ts \in [ks -> KwargTypes]} : ks \in SUBSET KwargNames}

Calls ==
    UNION {[func : Callees, args : ArgLists(ctx), kwargs : KwargMaps, ctx : {ctx}]
                : ctx \in Contexts}

IdleCall == [func |-> Callee(TRUE, NoModule, "-"), args |-> <<>>,
             kwargs |-> EmptyMap, ctx |-> CtxTop]

\* The tuples that hold the members of a set in some order.
Orderings(S) ==
    {t \in [1..Cardinality(S) -> S] : \A x \in S : \E i \in DOMAIN t : t[i] = x}

Pending == [err |-> "pending", node |-> None]
Failed(e) == [err |-> e, node |-> None]

\* A slip: a callee is never taken for a parameter.
IsParameterCallNever(expr, ctx) == FALSE

\* Lines 69-70: the callee is a bare identifier that names a parameter of the
\* function being compiled.
IsParameterCall(expr, ctx) ==
    expr.bare /\ ctx.func # None /\ expr.name \in ctx.func[1].params

\* Lines 68-91.
ResolveCall ==
    /\ pc = "start"
    /\ LET expr == call.func
           ctx == call.ctx
           funcname == IF expr.bare THEN Name(NoModule, expr.name, NoQual)
                       ELSE Name(expr.module, expr.name, NoQual)
           found == get_functions(schema, funcname, FALSE, ctx.modaliases)
       IN  IF IsParameterCall(expr, ctx)
           THEN /\ outcome' = Failed("EdgeQLError: parameter is not callable")
                /\ pc' = "done"
                /\ UNCHANGED <<funcs, fi, matched_call>>
           ELSE IF found.err # NoErr
           THEN /\ outcome' = Failed(found.err)
                /\ pc' = "done"
                /\ UNCHANGED <<funcs, fi, matched_call>>
           ELSE /\ funcs' \in Orderings(found.funcs)
                /\ fi' = 1
                /\ matched_call' = NO_MATCH
                /\ pc' = "bind"
                /\ UNCHANGED outcome
    /\ UNCHANGED <<call, world, schema, err, intact>>

\* Lines 94-97: try_bind_func_args for the i-th candidate of the group.
TryCandidate(i) ==
    TryBindFuncArgs(call.args, call.kwargs, FuncOf(funcs[i]), call.ctx)

\* Lines 93-112: one iteration of the loop over the candidates.
BindCandidate ==
    /\ pc = "bind"
    /\ fi <= Len(funcs)
    /\ LET r == TryCandidate(fi)
           sel == SelectCall(matched_call, r.call, call.args, call.kwargs)
       IN  IF r.err # NoErr
           THEN /\ outcome' = Failed(r.err)
                /\ pc' = "done"
                /\ UNCHANGED <<fi, matched_call>>
           ELSE IF sel.err # NoErr
           THEN /\ outcome' = Failed(sel.err)
                /\ pc' = "done"
                /\ matched_call' = sel.matched_call
                /\ UNCHANGED fi
           ELSE /\ matched_call' = sel.matched_call
                /\ fi' = fi + 1
                /\ UNCHANGED <<outcome, pc>>
    /\ UNCHANGED <<call, funcs, world, schema, err, intact>>

\* Lines 114-125.
FinishCall ==
    /\ pc = "bind"
    /\ fi > Len(funcs)
    /\ IF matched_call.func = None
       THEN outcome' = Failed("EdgeQLError: could not find a function variant")
       ELSE outcome' = [err |-> NoErr, node |-> Some(FunctionCallNode(matched_call))]
    /\ pc' = "done"
    /\ UNCHANGED <<call, funcs, fi, matched_call, world, schema, err, intact>>

InitBind ==
    /\ world = "funcs"
    /\ schema = LibrarySchema
    /\ err = NoErr
    /\ intact = TRUE
    /\ call \in Calls
    /\ funcs = <<>>
    /\ fi = 0
    /\ matched_call = NO_MATCH
    /\ outcome = Pending
    /\ pc = "start"

NextBind ==
    \/ ResolveCall
    \/ BindCandidate
    \/ FinishCall

BindSpec == InitBind /\ [][NextBind]_vars

(***************************************************************************)
(* The catalog as a state machine.                                         *)
(***************************************************************************)
Init ==
    /\ world \in Worlds
    /\ schema = EmptySchema
    /\ err = NoErr
    /\ intact = TRUE
    /\ call = IdleCall
    /\ funcs = <<>>
    /\ fi = 0
    /\ matched_call = NO_MATCH
    /\ outcome = Pending
    /\ pc = "idle"

\* The client calls a method on the catalog value it holds: it goes on with
\* the value returned, or, when the call raised, with the receiver.
Call(r) ==
    /\ schema.generation < MaxGen
    /\ schema' = IF r.err = NoErr THEN r.ret ELSE r.self
    /\ err' = r.err
    /\ intact' = (r.self = schema)
    /\ UNCHANGED <<world, call, funcs, fi, matched_call, outcome, pc>>

\* Identities are generated for the object being created: the object added
\* is not one the catalog holds.
AddObject ==
    \E obj \in WorldObjects(world) : \E data \in DataChoices(obj) :
        /\ obj.id \notin DOMAIN schema.id_to_data
        /\ Call(Add(schema, obj.id, obj, data))

DeleteObject == \E obj \in WorldObjects(world) : Call(delete(schema, obj))

DiscardObject == \E obj \in WorldObjects(world) : Call(discard(schema, obj))

SetField ==
    \E obj \in WorldObjects(world) : \E field \in Fields(obj) :
        \E value \in FieldValues(obj, field) :
            Call(SetObjField(schema, obj.id, field, value))

UnsetField ==
    \E obj \in WorldObjects(world) : \E field \in Fields(obj) :
        Call(UnsetObjField(schema, obj.id, field))

UpdateFields ==
    \E obj \in WorldObjects(world) : \E updates \in UpdateChoices(obj) :
        Call(UpdateObj(schema, obj.id, updates))

Next ==
    \/ AddObject
    \/ DeleteObject
    \/ DiscardObject
    \/ SetField
    \/ UnsetField
    \/ UpdateFields

Spec == Init /\ [][Next]_vars

\* The catalog of a client that works with modules and functions only.
InitNames == Init /\ world = "names"
NamesSpec == InitNames /\ [][Next]_vars

\* The catalog of a client that declares a hierarchy of types.
InitTypes ==
    /\ world = "types"
    /\ schema = EmptySchema
    /\ err = NoErr
    /\ intact = TRUE
    /\ call = IdleCall
    /\ funcs = <<>>
    /\ fi = 0
    /\ matched_call = NO_MATCH
    /\ outcome = Pending
    /\ pc = "idle"
TypesSpec == InitTypes /\ [][Next]_vars

(***************************************************************************)
(* Properties of the catalog (Spec).                                       *)
(***************************************************************************)
\* C1: whatever mutating operation was last called on a catalog value, and
\* whether it returned or raised, the receiver has the indices and the
\* generation it had before the call.
ReceiverUnchanged == intact

\* A mutation that raised, called on a value derived by two earlier ones.
FailedOnDerivedValue == err # NoErr /\ schema.generation >= 2 /\ intact

\* C2: A is among get_referrers(B, scls_type=type(A), field_name=F) exactly
\* when A is in the catalog and its field F holds a reference to B, alone or
\* in a collection.
ReferrersExact ==
    \A A \in AllObjects : \A B \in AllObjects :
        \A i \in DOMAIN get_object_fields(A.cls) :
            LET F == get_object_fields(A.cls)[i]
                r == get_referrers(schema, B, Some(A.cls), Some(F))
            IN  /\ r.err = NoErr
                /\ A \in r.referrers <=>
                        /\ A.id \in DOMAIN schema.id_to_data
                        /\ B.id \in FieldRefIds(schema.id_to_data[A.id], F)

\* The cast C1 went from T1 to T2 in from_type: T1 has lost its only referrer
\* and T2 has C1 as one.
ReferenceRetargeted ==
    /\ C1.id \in DOMAIN schema.id_to_data
    /\ FieldRefIds(schema.id_to_data[C1.id], "from_type") = {T2.id}
    /\ T1.id \in DOMAIN schema.refs_to
    /\ schema.refs_to[T1.id] = EmptyMap
    /\ C1 \in get_referrers(schema, T2, Some("Cast"), Some("from_type")).referrers

\* C3: an add under a name that name_to_id holds raises the naming-conflict
\* error, hands back no new catalog value and leaves the catalog it was called
\* on as it was.
AddNameConflict ==
    /\ \A obj \in WorldObjects(world) : \A data \in DataChoices(obj) :
            data["name"] \in DOMAIN schema.name_to_id =>
                LET r == Add(schema, obj.id, obj, data)
                IN  /\ r.err = "SchemaError: already present in the schema"
                    /\ r.ret = schema
                    /\ r.self = schema
    /\ err = "SchemaError: already present in the schema" => intact

\* An add was refused for its name while the catalog holds objects.
AddRefused ==
    /\ err = "SchemaError: already present in the schema"
    /\ Cardinality(DOMAIN schema.name_to_id) >= 2

\* C4: get_functions gives exactly the Function objects of the catalog whose
\* shortname is the name looked up (a bare name is looked up in std), and
\* raises not-found, or gives the caller's default, when there is none.
GetFunctionsExact ==
    \A n \in {Name(NoModule, "f", NoQual), Name("std", "f", NoQual),
              Name("test", "f", NoQual)} :
        LET resolved == IF n.module = NoModule THEN SchemaName(n.name, "std") ELSE n
            current == {o \in AllObjects :
                            /\ o.cls = "Function"
                            /\ o.id \in DOMAIN schema.id_to_data
                            /\ "name" \in DOMAIN schema.id_to_data[o.id]
                            /\ shortname_from_fullname(schema.id_to_data[o.id]["name"])
                                    = resolved}
            r == get_functions(schema, n, FALSE, EmptyMap)
            d == get_functions(schema, n, TRUE, EmptyMap)
        IN  IF current # {}
            THEN /\ r.err = NoErr /\ r.funcs = current
                 /\ d.err = NoErr /\ d.found /\ d.funcs = current
            ELSE /\ r.err = "ItemNotFoundError"
                 /\ d.err = NoErr /\ ~d.found

\* Two functions shared the shortname std::f; one of them is left under it,
\* the other is now test::f.
OverloadRenamedAway ==
    /\ {F1.id, F2.id} \subseteq DOMAIN schema.id_to_data
    /\ "name" \in DOMAIN schema.id_to_data[F1.id]
    /\ "name" \in DOMAIN schema.id_to_data[F2.id]
    /\ schema.id_to_data[F1.id]["name"].module = "std"
    /\ schema.id_to_data[F2.id]["name"].module = "test"
    /\ get_functions(schema, Name(NoModule, "f", NoQual), FALSE, EmptyMap).funcs = {F1}
    /\ get_functions(schema, Name("test", "f", NoQual), FALSE, EmptyMap).funcs = {F2}
    /\ schema.generation >= 5

(***************************************************************************)
(* Properties of overload resolution (BindSpec).                           *)
(***************************************************************************)
\* C5: for a call with at least one argument, whatever the order of the
\* candidates: when some candidate binds without an implicit cast, the
\* candidate the call node is built from used none.
PrefersNoImplicitCast ==
    (/\ pc = "done"
     /\ outcome.err = NoErr
     /\ (call.args # <<>> \/ call.kwargs # EmptyMap)
     /\ \E i \in DOMAIN funcs :
            /\ TryCandidate(i).err = NoErr
            /\ TryCandidate(i).call.args # None
            /\ ~TryCandidate(i).call.used_implicit_casts)
    => /\ ~matched_call.used_implicit_casts
       /\ outcome.node[1].func = matched_call.func[1]

\* The candidate tried first matched with an implicit cast and was given up
\* for a later one that needed none.
CastMatchReplaced ==
    /\ pc = "done"
    /\ outcome.err = NoErr
    /\ Len(call.args) >= 1
    /\ TryCandidate(1).err = NoErr
    /\ TryCandidate(1).call.args # None
    /\ TryCandidate(1).call.used_implicit_casts
    /\ ~matched_call.used_implicit_casts

\* C6 as the specification states it: a call without arguments that two or
\* more candidates bind ends in the ambiguity error whatever the order of the
\* candidates, and one that exactly one candidate binds succeeds with it.
NoArgsAmbiguityAnyOrder ==
    (pc = "done" /\ funcs # <<>> /\ call.args = <<>> /\ call.kwargs = EmptyMap) =>
        LET binding == {i \in DOMAIN funcs :
                            /\ TryCandidate(i).err = NoErr
                            /\ TryCandidate(i).call.args # None}
        IN  /\ Cardinality(binding) >= 2 =>
                    outcome.err = "EdgeQLError: function is not unique"
            /\ Cardinality(binding) = 1 =>
                    /\ outcome.err = NoErr
                    /\ \A i \in binding : outcome.node[1].func = FuncOf(funcs[i])

\* C6, amended: a candidate whose binding raises ends the compilation with
\* its error when it is tried.  A call without arguments ends in the
\* ambiguity error when a second binding candidate is tried before any
\* candidate that raises, in the error of the first candidate that raises
\* when that one is tried before a second binding candidate, and succeeds
\* with the one binding candidate when exactly one binds and none raises.
NoArgsAmbiguity ==
    (pc = "done" /\ funcs # <<>> /\ call.args = <<>> /\ call.kwargs = EmptyMap) =>
        LET binding == {i \in DOMAIN funcs :
                            /\ TryCandidate(i).err = NoErr
                            /\ TryCandidate(i).call.args # None}
            raising == {i \in DOMAIN funcs : TryCandidate(i).err # NoErr}
            second == {i \in binding : \E j \in binding : j < i}
            first(S) == CHOOSE i \in S : \A j \in S : i <= j
        IN  /\ (second # {} /\ (raising = {} \/ first(second) < first(raising))) =>
                    outcome.err = "EdgeQLError: function is not unique"
            /\ (raising # {} /\ (second = {} \/ first(raising) < first(second))) =>
                    outcome.err = TryCandidate(first(raising)).err
            /\ (Cardinality(binding) = 1 /\ raising = {}) =>
                    /\ outcome.err = NoErr
                    /\ \A i \in binding : outcome.node[1].func = FuncOf(funcs[i])

\* Two candidates bound a call without arguments and the ambiguity was
\* reported, in a group that also holds a candidate whose binding raises.
AmbiguityBeforeRaise ==
    /\ pc = "done"
    /\ call.args = <<>> /\ call.kwargs = EmptyMap
    /\ outcome.err = "EdgeQLError: function is not unique"
    /\ \E i \in DOMAIN funcs : TryCandidate(i).err # NoErr

\* C7: a function without parameters matches exactly the calls without
\* positional and named arguments; the match of a native function has no
\* arguments, the match of an EdgeQL function has the one zero byte-string
\* constant, the return type is the declared one and both flags are false.
ZeroParamBinding ==
    \A i \in DOMAIN funcs :
        LET func == FuncOf(funcs[i])
            r == TryCandidate(i)
        IN  func.params = <<>> =>
                /\ r.err = NoErr
                /\ r.call.args # None <=> (call.args = <<>> /\ call.kwargs = EmptyMap)
                /\ r.call.args # None =>
                        /\ r.call.func = Some(func)
                        /\ Len(r.call.args[1]) = IF func.language = "EdgeQL" THEN 1 ELSE 0
                        /\ \A k \in DOMAIN r.call.args[1] :
                                /\ r.call.args[1][k].tag = "bytes"
                                /\ r.call.args[1][k].value = RawZeroByteText
                        /\ r.call.return_type = func.return_type
                        /\ ~r.call.used_implicit_casts
                        /\ ~r.call.has_empty_variadic
                /\ r.call.args = None => r.call = NO_MATCH

\* The EdgeQL function without parameters is the best match of a call without
\* arguments.
ZeroParamEdgeQLMatched ==
    /\ call.args = <<>> /\ call.kwargs = EmptyMap
    /\ matched_call.func # None
    /\ matched_call.func[1].params = <<>>
    /\ matched_call.func[1].language = "EdgeQL"
    /\ Len(matched_call.args[1]) = 1

\* C8: a candidate none of whose NAMED_ONLY parameters has the name of some
\* named argument of the call (a POSITIONAL or VARIADIC parameter of that
\* name does not count) is no match; when that is so for every candidate the
\* call ends in the no-variant error.
StrayNamedArgument ==
    LET stray(func) ==
            \E k \in DOMAIN call.kwargs :
                ~\E j \in DOMAIN func.params :
                    func.params[j].kind = "NAMED_ONLY" /\ func.params[j].name = k
    IN  /\ \A i \in DOMAIN funcs :
                stray(FuncOf(funcs[i])) => TryCandidate(i) = Bound(NO_MATCH)
        /\ (/\ pc = "done"
            /\ funcs # <<>>
            /\ \A i \in DOMAIN funcs : stray(FuncOf(funcs[i])))
           => outcome.err = "EdgeQLError: could not find a function variant"

\* A call of v with the named argument y, which is the name of the VARIADIC
\* parameter of one candidate and of no NAMED_ONLY parameter, found no variant.
NamedArgumentOfVariadicName ==
    /\ pc = "done"
    /\ call.func.name = "v"
    /\ "y" \in DOMAIN call.kwargs
    /\ Len(funcs) = 3
    /\ outcome.err = "EdgeQLError: could not find a function variant"

\* C9: for a candidate with a VARIADIC parameter, a match has
\* has_empty_variadic exactly when no positional argument was left for the
\* VARIADIC parameter, a call without arguments included; and when none is
\* left the VARIADIC parameter changes nothing else: the candidate binds as
\* it would without that parameter.
EmptyVariadicFlag ==
    \A i \in DOMAIN funcs :
        LET func == FuncOf(funcs[i])
            r == TryCandidate(i)
            npositional == Cardinality({j \in DOMAIN func.params :
                                            func.params[j].kind = "POSITIONAL"})
            rest == SelectSeq(func.params, LAMBDA q : q.kind # "VARIADIC")
            plain == TryBindFuncArgs(call.args, call.kwargs,
                                     [func EXCEPT !.params = rest], call.ctx)
        IN  (\E j \in DOMAIN func.params : func.params[j].kind = "VARIADIC") =>
                /\ (r.err = NoErr /\ r.call.args # None) =>
                        (r.call.has_empty_variadic <=> Len(call.args) <= npositional)
                /\ (/\ Len(call.args) <= npositional
                    /\ rest # <<>>
                    /\ ~is_polymorphic(func.return_type)) =>
                        /\ r.err = plain.err
                        /\ r.call.args = plain.call.args
                        /\ r.call.return_type = plain.call.return_type
                        /\ r.call.used_implicit_casts = plain.call.used_implicit_casts
                        /\ r.call.args # None => r.call.func = Some(func)

\* A call of v without arguments was compiled to a call node with
\* has_empty_variadic.
NoArgsEmptyVariadic ==
    /\ pc = "done"
    /\ call.args = <<>> /\ call.kwargs = EmptyMap
    /\ outcome.err = NoErr
    /\ outcome.node[1].has_empty_variadic
    /\ \E j \in DOMAIN outcome.node[1].func.params :
            outcome.node[1].func.params[j].kind = "VARIADIC"

\* C10 as the specification states it: bit i of the mask is set exactly when
\* the i-th parameter in the order of the declaration got its default.
DefaultsMaskDeclarationOrder ==
    \A i \in DOMAIN funcs :
        LET func == FuncOf(funcs[i])
            r == TryCandidate(i)
        IN  (/\ func.language = "EdgeQL"
             /\ func.params # <<>>
             /\ r.err = NoErr
             /\ r.call.args # None) =>
                LET mask == Head(r.call.args[1]).value[1]
                    bound == Tail(r.call.args[1])
                IN  \A k \in 0..(Len(func.params) - 1) :
                        TestBit(mask, k) <=>
                            \E b \in DOMAIN bound :
                                /\ bound[b].tag \in {"empty_set", "ir_default"}
                                /\ bound[b].name = func.params[k + 1].name

\* C10, amended: bit i of the mask is set exactly when the i-th bound
\* argument was populated from its parameter's default; the bound arguments
\* are in the order they were bound, the NAMED_ONLY parameters before the
\* positional ones.  For f(x: int64, NAMED ONLY y: str = "a") the call f(1)
\* sets bit 0 only and the call f(1, y := "b") sets no bit.
DefaultsMaskBoundOrder ==
    \A i \in DOMAIN funcs :
        LET func == FuncOf(funcs[i])
            r == TryCandidate(i)
        IN  (/\ func.language = "EdgeQL"
             /\ func.params # <<>>
             /\ r.err = NoErr
             /\ r.call.args # None) =>
                LET mask == Head(r.call.args[1]).value
                    bound == Tail(r.call.args[1])
                IN  /\ Head(r.call.args[1]).tag = "bytes"
                    /\ Len(mask) = (Len(func.params) \div 8) + 1
                    /\ mask[1] < 2 ^ Len(bound)
                    /\ \A k \in 0..(Len(bound) - 1) :
                            TestBit(mask[1], k) <=>
                                bound[k + 1].tag \in {"empty_set", "ir_default"}
                    /\ func.obj.id = 31 =>
                            mask[1] = IF "y" \in DOMAIN call.kwargs THEN 0 ELSE 1

\* f(x: int64, NAMED ONLY y: str = "a") was called with one positional
\* argument: the call node carries the mask with bit 0 alone.
NamedOnlyDefaultIsBitZero ==
    /\ pc = "done"
    /\ outcome.err = NoErr
    /\ outcome.node[1].func.obj.id = 31
    /\ Len(call.args) = 1 /\ call.kwargs = EmptyMap
    /\ Head(outcome.node[1].args).value = <<1>>
    /\ Len(outcome.node[1].args) = 3

(***************************************************************************)
(* Properties of the catalog (Spec): modules, deletion, lookups.           *)
(***************************************************************************)
\* The module of the name of a non-module object is not in modules.
ModuleAbsent(obj, data) ==
    /\ obj.cls # "Module"
    /\ ModuleName(data["name"].module) \notin DOMAIN schema.modules

\* C11 as stated: every add of a non-module object whose name is qualified
\* by a module that modules does not hold raises the module-not-found error
\* and leaves the catalog as it was, and an add of a Module never raises it
\* and enters the module in modules.
AddModuleNotFoundAlways ==
    /\ \A obj \in WorldObjects(world) : \A data \in DataChoices(obj) :
            LET r == Add(schema, obj.id, obj, data)
            IN  /\ ModuleAbsent(obj, data) =>
                        /\ r.err = "SchemaModuleNotFoundError"
                        /\ r.self = schema
                /\ obj.cls = "Module" =>
                        /\ r.err # "SchemaModuleNotFoundError"
                        /\ r.err = NoErr =>
                                /\ data["name"] \in DOMAIN r.ret.modules
                                /\ r.ret.modules[data["name"]] = obj.id
    /\ err = "SchemaModuleNotFoundError" => intact

\* C11, amended: an add of a non-module object under a name that is not in
\* use and whose module is not in modules raises the module-not-found error,
\* hands back no new catalog value and leaves the catalog as it was; under a
\* name in use the add raises the naming conflict, whatever its module.  An
\* add of a Module never raises the module-not-found error and, when it
\* returns, the module is in modules under its name.
AddModuleNotFound ==
    /\ \A obj \in WorldObjects(world) : \A data \in DataChoices(obj) :
            LET r == Add(schema, obj.id, obj, data)
            IN  /\ ModuleAbsent(obj, data) =>
                        /\ r.err = IF data["name"] \in DOMAIN schema.name_to_id
                                   THEN "SchemaError: already present in the schema"
                                   ELSE "SchemaModuleNotFoundError"
                        /\ r.ret = schema
                        /\ r.self = schema
                /\ obj.cls = "Module" =>
                        /\ r.err # "SchemaModuleNotFoundError"
                        /\ r.err = NoErr =>
                                /\ data["name"] \in DOMAIN r.ret.modules
                                /\ r.ret.modules[data["name"]] = obj.id
    /\ err = "SchemaModuleNotFoundError" => intact

\* An add was refused for its module by a catalog that holds a module and an
\* object.
AddWithoutModule ==
    /\ err = "SchemaModuleNotFoundError"
    /\ schema.modules # EmptyMap
    /\ Cardinality(DOMAIN schema.id_to_data) >= 2

\* The identity has no entry in any of the five indices of the catalog and
\* is listed as a referrer of no object.
GoneFrom(s, id) ==
    /\ id \notin DOMAIN s.id_to_data
    /\ id \notin DOMAIN s.id_to_type
    /\ \A n \in DOMAIN s.name_to_id : s.name_to_id[n] # id
    /\ \A k \in DOMAIN s.shortname_to_id : id \notin s.shortname_to_id[k]
    /\ \A n \in DOMAIN s.modules : s.modules[n] # id
    /\ \A t \in DOMAIN s.refs_to : \A k \in DOMAIN s.refs_to[t] :
            id \notin s.refs_to[t][k]

\* C12: for an object the catalog does not hold, discard returns the very
\* catalog value it was called on (and so does a second discard) and delete
\* raises the item-not-found error; for an object it holds, both return a
\* catalog in which the object has no entry in id_to_data, id_to_type,
\* name_to_id, shortname_to_id or modules and is a referrer of no object.
DeleteRemovesEverywhere ==
    \A obj \in WorldObjects(world) :
        LET d == delete(schema, obj)
            c == discard(schema, obj)
        IN  IF obj.id \notin DOMAIN schema.id_to_data
            THEN /\ c.err = NoErr
                 /\ c.ret = schema
                 /\ discard(c.ret, obj).ret = c.ret
                 /\ d.err = "ItemNotFoundError"
            ELSE /\ d.err = NoErr
                 /\ c.err = NoErr
                 /\ GoneFrom(d.ret, obj.id)
                 /\ GoneFrom(c.ret, obj.id)

\* What the catalog holds under a name: Some(the object) or None.
Held(s, n) ==
    IF n \in DOMAIN s.name_to_id THEN Some(s.id_to_type[s.name_to_id[n]]) ELSE None

\* The overload group the catalog holds under a shortname: Some(the set of
\* Functions) or None.
HeldGroup(s, n) ==
    IF <<"Function", n>> \in DOMAIN s.shortname_to_id
    THEN Some({s.id_to_type[i] : i \in s.shortname_to_id[<<"Function", n>>]})
    ELSE None

\* C13 as stated: a name without module qualifier is first looked up as the
\* bare name, whatever module_aliases is: an object the catalog holds under
\* the bare name is what get returns.
BareNameFirstAnyAliases ==
    \A n \in BareNames : \A a \in ModuleAliases :
        Held(schema, n) # None =>
            get(schema, n, FALSE, a, None) = [err |-> NoErr, obj |-> Held(schema, n)]

\* C13, amended: a name without module qualifier is first looked up as the
\* bare name when module_aliases has no entry for the absent module; when it
\* has one, the first lookup is of the name qualified by the module of that
\* entry and the bare name is not looked up.  In both cases a first lookup
\* that finds nothing is followed by the lookup under 'std'.
BareNameFirstUnlessAliased ==
    \A n \in BareNames : \A a \in ModuleAliases :
        LET first == IF NoModule \in DOMAIN a
                     THEN Name(a[NoModule], n.name, n.qual) ELSE n
            std == Name("std", n.name, n.qual)
            obj == IF Held(schema, first) # None THEN Held(schema, first)
                   ELSE Held(schema, std)
            group == IF HeldGroup(schema, first) # None THEN HeldGroup(schema, first)
                     ELSE HeldGroup(schema, std)
        IN  /\ get(schema, n, TRUE, a, None) = [err |-> NoErr, obj |-> obj]
            /\ get(schema, n, FALSE, a, None).obj = obj
            /\ get_functions(schema, n, TRUE, a).found = (group # None)
            /\ group # None => get_functions(schema, n, FALSE, a).funcs = group[1]

\* The catalog holds the modules std and test and a function test::f@a but no
\* function of shortname std::f: the bare name std is found without aliases
\* and not found when the absent module is aliased to test, and the bare
\* name f@a resolves under that alias only.
BareNameAliasedAway ==
    /\ get(schema, ModuleName("std"), TRUE, EmptyMap, None).obj \in {Some(M1), Some(M2)}
    /\ get(schema, ModuleName("std"), TRUE, NoModule :> "test", None).obj = None
    /\ get(schema, Name(NoModule, "f", "a"), TRUE, EmptyMap, None).obj = None
    /\ get(schema, Name(NoModule, "f", "a"), TRUE, NoModule :> "test", None).obj
            \in {Some(F1), Some(F2)}
    /\ get_functions(schema, SchemaName("f", NoModule), TRUE, NoModule :> "test").found

\* What the catalog holds under a name and of a class: the type filter of
\* get is None or Some(class).
HeldAs(s, n, type) ==
    IF Held(s, n) # None /\ (type = None \/ Held(s, n)[1].cls = type[1])
    THEN Held(s, n) ELSE None

\* C14: the lookup under 'std' is made exactly for a name that came without
\* module qualifier and whose first lookup found nothing.  A name qualified
\* by a module, directly or through an alias, that is not found gives the
\* default or the item-not-found error, also when 'std' holds an object of
\* that unqualified name; a name without qualifier that is found only in
\* 'std' gives the object of 'std'.
BuiltinFallbackExact ==
    \A n \in LookupNames : \A a \in ModuleAliases :
      \A type \in {None, Some("Function"), Some("Module")} :
        LET module == IF n.module \in DOMAIN a THEN a[n.module] ELSE n.module
            first == HeldAs(schema, Name(module, n.name, n.qual), type)
            std == HeldAs(schema, Name("std", n.name, n.qual), type)
            d == get(schema, n, TRUE, a, type)
            v == get(schema, n, FALSE, a, type)
        IN  /\ first # None => d.obj = first /\ v = d /\ d.err = NoErr
            /\ first = None /\ n.module # NoModule =>
                    /\ d = [err |-> NoErr, obj |-> None]
                    /\ v = [err |-> "ItemNotFoundError", obj |-> None]
            /\ first = None /\ n.module = NoModule /\ std # None =>
                    /\ d = [err |-> NoErr, obj |-> std]
                    /\ v = d
            /\ first = None /\ n.module = NoModule /\ std = None =>
                    /\ d = [err |-> NoErr, obj |-> None]
                    /\ v = [err |-> "ItemNotFoundError", obj |-> None]

\* std holds a function f@a and test holds none: test::f@a, and t::f@a under
\* the alias t of test, are not found, and the bare name f@a gives the
\* function of std.
QualifiedMissBareHit ==
    /\ ModuleName("test") \in DOMAIN schema.modules
    /\ Held(schema, Name("std", "f", "a")) # None
    /\ get(schema, Name("test", "f", "a"), FALSE, EmptyMap, None).err = "ItemNotFoundError"
    /\ get(schema, Name("t", "f", "a"), TRUE, "t" :> "test", None).obj = None
    /\ get(schema, Name(NoModule, "f", "a"), FALSE, EmptyMap, Some("Function")).obj
            = Held(schema, Name("std", "f", "a"))

\* The objects of the catalog that refer to B: through any field, or through
\* the field named, and of any class, or of the class named.
ReferringObjects(s, B, scls_type, field_name) ==
    {s.id_to_type[i] : i \in
        {i \in DOMAIN s.id_to_data :
            /\ scls_type # None => s.id_to_type[i].cls = scls_type[1]
            /\ \E k \in DOMAIN get_object_fields(s.id_to_type[i].cls) :
                LET F == get_object_fields(s.id_to_type[i].cls)[k]
                IN  /\ field_name # None => F = field_name[1]
                    /\ B.id \in FieldRefIds(s.id_to_data[i], F)}}

ReferrerClasses == {None, Some("Type"), Some("Cast")}
ReferrerFields == {None, Some("bases"), Some("from_type"), Some("to_type")}

\* C15 as stated: get_referrers narrowed by class, by field name or by both
\* returns the objects that refer to the given object and pass the filters;
\* with a field name alone it does so whether or not the object has
\* referrers.
ReferrersAnyFilter ==
    \A B \in WorldObjects(world) :
        \A scls_type \in ReferrerClasses : \A field_name \in ReferrerFields :
            get_referrers(schema, B, scls_type, field_name) =
                [err |-> NoErr,
                 referrers |-> ReferringObjects(schema, B, scls_type, field_name)]

\* C15, amended: get_referrers can be narrowed by class alone or by class and
\* field name, and without filter returns every referrer.  A field name
\* without class raises ValueError when refs_to has an entry for the object,
\* also one left empty by its last referrer, and gives the empty set when
\* refs_to has none: there it does not behave the same way with and without
\* referrers.
ReferrersByClassThenField ==
    \A B \in WorldObjects(world) :
        \A scls_type \in ReferrerClasses : \A field_name \in ReferrerFields :
            get_referrers(schema, B, scls_type, field_name) =
                IF scls_type = None /\ field_name # None
                THEN IF B.id \in DOMAIN schema.refs_to
                     THEN [err |-> "ValueError", referrers |-> {}]
                     ELSE [err |-> NoErr, referrers |-> {}]
                ELSE [err |-> NoErr,
                      referrers |-> ReferringObjects(schema, B, scls_type, field_name)]

\* T1 is the from_type of the cast C1 and a base of T2, and T2 was never
\* referred to: by class T1 has one referrer, by field name alone the call
\* raises for T1 and gives the empty set for T2.
FieldNameAloneRaises ==
    /\ get_referrers(schema, T1, None, None).referrers = {C1, T2}
    /\ get_referrers(schema, T1, Some("Cast"), None).referrers = {C1}
    /\ get_referrers(schema, T1, None, Some("from_type")).err = "ValueError"
    /\ T2.id \in DOMAIN schema.id_to_data
    /\ get_referrers(schema, T2, None, Some("from_type")) =
            [err |-> NoErr, referrers |-> {}]

(***************************************************************************)
(* Properties of the type hierarchy (TypesSpec).                           *)
(***************************************************************************)
\* The types declared with scls among their bases.
DirectSubtypes(s, scls) ==
    {s.id_to_type[i] : i \in
        {i \in DOMAIN s.id_to_data :
            /\ s.id_to_type[i].cls = scls.cls
            /\ scls.id \in FieldRefIds(s.id_to_data[i], "bases")}}

\* The subtypes of scls down to the given number of levels.
RECURSIVE SubtypesWithin(_, _, _)
SubtypesWithin(s, scls, levels) ==
    IF levels = 0 THEN {}
    ELSE DirectSubtypes(s, scls) \cup
         UNION {SubtypesWithin(s, c, levels - 1) : c \in DirectSubtypes(s, scls)}

\* C16: with max_depth omitted, get_descendants returns every subtype of the
\* object, at whatever depth; with max_depth = k it returns the children and
\* what is reached from them in at most k further steps.
DescendantsUnboundedByDefault ==
    \A scls \in {T3, T4, T5} :
        (scls.id \in DOMAIN schema.id_to_data
            /\ GetDescendants_(schema, scls, None, 0).err = NoErr) =>
          /\ GetDescendants_(schema, scls, None, 0).result =
                SubtypesWithin(schema, scls, Cardinality(DOMAIN schema.id_to_data))
          /\ \A k \in 0..MaxDepth :
                GetDescendants_(schema, scls, Some(k), 0).err = NoErr =>
                    GetDescendants_(schema, scls, Some(k), 0).result =
                        SubtypesWithin(schema, scls, k + 1)

(***************************************************************************)
(* Properties of overload resolution (BindSpec): parameters as callees,    *)
(* positional parameters left without argument.                            *)
(***************************************************************************)
\* C17: a call whose callee is a bare identifier naming a parameter of the
\* enclosing function fails with the parameter-not-callable error before the
\* catalog is asked for the overloads and before any candidate is tried,
\* also when the catalog holds a function of that name that would match.
ParameterNotCallable ==
    (call.func.bare /\ call.ctx.func # None
        /\ call.func.name \in call.ctx.func[1].params /\ pc # "start") =>
            /\ pc = "done"
            /\ outcome = Failed("EdgeQLError: parameter is not callable")
            /\ funcs = <<>>
            /\ fi = 0
            /\ matched_call = NO_MATCH

\* The call z(int64) inside a function with a parameter z has failed, and
\* the catalog holds an overload of z that binds its argument.
ParameterShadowsFunction ==
    /\ pc = "done"
    /\ call.func = Callee(TRUE, NoModule, "z")
    /\ call.ctx = CtxPoly
    /\ call.args # <<>>
    /\ outcome = Failed("EdgeQLError: parameter is not callable")
    /\ \E f \in get_functions(schema, SchemaName("z", NoModule), TRUE, EmptyMap).funcs :
            LET r == TryBindFuncArgs(call.args, call.kwargs, FuncOf(f), call.ctx)
            IN  r.err = NoErr /\ r.call # NO_MATCH

\* C18: a candidate with a POSITIONAL parameter that no positional argument
\* reached and that has no default is no match, so that f(y := "b") does not
\* match f(x: int64, NAMED ONLY y: str = "a"); a candidate that matches has a
\* default for every such parameter and binds each of them to its default,
\* once.
MissingPositionalNeedsDefault ==
    \A i \in DOMAIN funcs :
        LET func == FuncOf(funcs[i])
            r == TryCandidate(i)
            positional == SelectSeq(func.params, LAMBDA q : q.kind = "POSITIONAL")
            left == {j \in DOMAIN positional : j > Len(call.args)}
        IN  /\ (\E j \in left : positional[j].default = "none") =>
                    r = Bound(NO_MATCH)
            /\ (func.obj.id = 31 /\ call.args = <<>> /\ DOMAIN call.kwargs = {"y"}) =>
                    r = Bound(NO_MATCH)
            /\ (r.err = NoErr /\ r.call.args # None) =>
                    \A j \in left :
                        /\ positional[j].default # "none"
                        /\ Cardinality({k \in DOMAIN r.call.args[1] :
                                /\ r.call.args[1][k].tag \in {"empty_set", "ir_default"}
                                /\ r.call.args[1][k].name = positional[j].name}) = 1

\* f(y := str) was compiled: f(x: int64, NAMED ONLY y: str = "a") was tried
\* and did not match, and the overload whose x has a default was bound with
\* that default.
RequiredPositionalMissing ==
    /\ pc = "done"
    /\ call.func.name = "f"
    /\ call.args = <<>>
    /\ DOMAIN call.kwargs = {"y"}
    /\ \E i \in DOMAIN funcs : funcs[i].id = 31 /\ TryCandidate(i) = Bound(NO_MATCH)
    /\ outcome.err = NoErr
    /\ matched_call.func # None
    /\ matched_call.func[1].obj.id = 33
    /\ \E k \in DOMAIN matched_call.args[1] :
            /\ matched_call.args[1][k].tag = "empty_set"
            /\ matched_call.args[1][k].name = "x"

(***************************************************************************)
(* Properties of the catalog (Spec): the indices.                          *)
(***************************************************************************)
\* The name field of the identity: Some(name), or None when it has none.
NameOf(s, i) ==
    IF "name" \in DOMAIN s.id_to_data[i] THEN Some(s.id_to_data[i]["name"]) ELSE None

\* C19: whatever was added, deleted, set, unset and updated, renames
\* included: name_to_id maps n to i exactly when i is in id_to_data with the
\* name field n; no two identities have one name; the entry of
\* shortname_to_id for (class, shortname) holds i exactly when i is a
\* Function or Operator of that class whose name has that shortname; and no
\* entry of shortname_to_id is the empty set.
NameIndicesConsistent ==
    /\ \A n \in DOMAIN schema.name_to_id :
            /\ schema.name_to_id[n] \in DOMAIN schema.id_to_data
            /\ NameOf(schema, schema.name_to_id[n]) = Some(n)
    /\ \A i \in DOMAIN schema.id_to_data :
            NameOf(schema, i) # None =>
                /\ NameOf(schema, i)[1] \in DOMAIN schema.name_to_id
                /\ schema.name_to_id[NameOf(schema, i)[1]] = i
    /\ \A i, j \in DOMAIN schema.id_to_data :
            (NameOf(schema, i) # None /\ NameOf(schema, i) = NameOf(schema, j)) => i = j
    /\ \A k \in DOMAIN schema.shortname_to_id :
            /\ schema.shortname_to_id[k] # {}
            /\ \A i \in schema.shortname_to_id[k] :
                    /\ i \in DOMAIN schema.id_to_data
                    /\ schema.id_to_type[i].cls = k[1]
                    /\ NameOf(schema, i) # None
                    /\ shortname_from_fullname(NameOf(schema, i)[1]) = k[2]
    /\ \A i \in DOMAIN schema.id_to_data :
            (schema.id_to_type[i].cls \in {"Function", "Operator"}
                /\ NameOf(schema, i) # None) =>
                    LET k == <<schema.id_to_type[i].cls,
                               shortname_from_fullname(NameOf(schema, i)[1])>>
                    IN  /\ k \in DOMAIN schema.shortname_to_id
                        /\ i \in schema.shortname_to_id[k]

\* The name of the function F2 was unset and the function F1 was renamed to
\* the name that became free: the overload group of std::f holds F1 alone.
FreedNameTakenOver ==
    /\ {F1.id, F2.id} \subseteq DOMAIN schema.id_to_data
    /\ NameOf(schema, F2.id) = None
    /\ NameOf(schema, F1.id) = Some(Name("std", "f", "b"))
    /\ schema.name_to_id[Name("std", "f", "b")] = F1.id
    /\ schema.shortname_to_id[<<"Function", SchemaName("f", "std")>>] = {F1.id}
    /\ err = NoErr
    /\ schema.generation >= 5

\* C20: modules is a part of name_to_id: every entry of modules is an entry
\* of name_to_id and names a Module, and the name of every Module of the
\* catalog is in modules; after add and delete, and after the name field of a
\* module was changed or unset.
ModulesWithinNames ==
    /\ \A n \in DOMAIN schema.modules :
            /\ n \in DOMAIN schema.name_to_id
            /\ schema.name_to_id[n] = schema.modules[n]
            /\ schema.modules[n] \in DOMAIN schema.id_to_type
            /\ schema.id_to_type[schema.modules[n]].cls = "Module"
    /\ \A i \in DOMAIN schema.id_to_data :
            (schema.id_to_type[i].cls = "Module" /\ NameOf(schema, i) # None) =>
                /\ NameOf(schema, i)[1] \in DOMAIN schema.modules
                /\ schema.modules[NameOf(schema, i)[1]] = i

(***************************************************************************)
(* Properties of overload resolution (BindSpec): types.                    *)
(***************************************************************************)
\* The type an argument of the call is checked against by the candidate:
\* the i-th positional argument meets the i-th POSITIONAL parameter or, past
\* the last of them, an element of the VARIADIC parameter; a named argument
\* meets the NAMED_ONLY parameter of its name.  None where there is no such
\* parameter.
PositionalOf(func) == SelectSeq(func.params, LAMBDA q : q.kind = "POSITIONAL")
VariadicOf(func) == SelectSeq(func.params, LAMBDA q : q.kind = "VARIADIC")
NamedOnlyOf(func) == SelectSeq(func.params, LAMBDA q : q.kind = "NAMED_ONLY")

ArgParamType(func, i) ==
    IF i <= Len(PositionalOf(func)) THEN Some(PositionalOf(func)[i].type)
    ELSE IF VariadicOf(func) # <<>> THEN Some(Ty(VariadicOf(func)[1].type.elem))
    ELSE None

KwargParamType(func, k) ==
    LET named == {j \in DOMAIN NamedOnlyOf(func) : NamedOnlyOf(func)[j].name = k}
    IN  IF named = {} THEN None
        ELSE Some(NamedOnlyOf(func)[CHOOSE j \in named : TRUE].type)

\* The pairs <<argument type, parameter type>> of the call for the candidate.
TypePairs(func) ==
    {<<call.args[i].type, ArgParamType(func, i)[1]>> :
        i \in {i \in DOMAIN call.args : ArgParamType(func, i) # None}}
    \cup {<<call.kwargs[k].type, KwargParamType(func, k)[1]>> :
            k \in {k \in DOMAIN call.kwargs : KwargParamType(func, k) # None}}

\* The concrete types the arguments give to the placeholder of the
\* candidate's parameters.
Resolutions(func) ==
    {resolve_polymorphic(pr[2], pr[1]) :
        pr \in {pr \in TypePairs(func) :
                    /\ is_polymorphic(pr[2])
                    /\ ~(InPolymorphicFunc(call.ctx) /\ is_polymorphic(pr[1])
                            /\ pr[1] = pr[2])
                    /\ resolve_polymorphic(pr[2], pr[1]) # None}}

\* C21: in one binding attempt the placeholder gets at most one concrete
\* type: a candidate whose polymorphic parameters (NAMED_ONLY, POSITIONAL or
\* the elements of the VARIADIC one) meet arguments of different concrete
\* types is no match; a match of a function with parameters and a
\* polymorphic return type returns it specialized to the one type that was
\* resolved; and what one candidate
\* resolved has no part in the binding of another: each candidate binds as
\* it does when it is tried alone.
PlaceholderResolvedOnce ==
    \A i \in DOMAIN funcs :
        LET func == FuncOf(funcs[i])
            r == TryCandidate(i)
        IN  /\ Cardinality(Resolutions(func)) > 1 => r = Bound(NO_MATCH)
            /\ (r.err = NoErr /\ r.call.args # None /\ func.params # <<>>
                    /\ is_polymorphic(func.return_type)) =>
                        /\ Cardinality(Resolutions(func)) = 1
                        /\ \A t \in Resolutions(func) :
                                r.call.return_type =
                                    to_nonpolymorphic(func.return_type, t[1])
            /\ (pc = "done" /\ outcome.err = NoErr /\ matched_call.func = Some(func)) =>
                    matched_call = r.call

\* g(int64, y := str) was compiled: g(x: any, VARIADIC r: array<any>,
\* NAMED ONLY y: any), whose placeholder met str and int64, was no match, and
\* g(x: any, NAMED ONLY y: str) was bound with the placeholder as int64.
PlaceholderMetTwoTypes ==
    /\ pc = "done"
    /\ call.func.name = "g"
    /\ \E i \in DOMAIN funcs :
            /\ funcs[i].id = 61
            /\ Resolutions(FuncOf(funcs[i])) = {Some(Int64), Some(Str)}
            /\ i < Len(funcs)
    /\ outcome.err = NoErr
    /\ matched_call.func # None
    /\ matched_call.func[1].obj.id = 62
    /\ matched_call.return_type = Int64

\* The three cases of the assignability check, for a pair <<argument type,
\* parameter type>>: the placeholder case as the claim states it (by the
\* type of the parameter) and as the code has it (by the type of the
\* argument), the subtype case and the implicit-cast case.
PlaceholderCaseByParameter(pr) ==
    /\ is_polymorphic(pr[2])
    /\ InPolymorphicFunc(call.ctx)
    /\ resolve_polymorphic(pr[2], pr[1]) # None
PlaceholderCaseByArgument(pr) ==
    /\ is_polymorphic(pr[1])
    /\ InPolymorphicFunc(call.ctx)
    /\ resolve_polymorphic(pr[1], pr[2]) # None
SubtypeCase(pr) == issubclass(pr[1], pr[2])
CastCase(pr) == implicitly_castable_to(pr[1], pr[2])

\* C22 as stated: the check of a pair is true exactly when the parameter's
\* type is a placeholder that resolves inside a polymorphic function, or
\* else the argument type is a subtype of the parameter type, or else an
\* implicit cast exists; a candidate with a pair that fails the check is no
\* match; and a match has used_implicit_casts exactly when one of its pairs
\* passed by the cast case alone.
AssignableByParameterPlaceholder ==
    \A i \in DOMAIN funcs :
        LET func == FuncOf(funcs[i])
            r == TryCandidate(i)
        IN  /\ \A pr \in TypePairs(func) :
                    /\ CheckType(InitialBindState, pr[1], pr[2],
                                 InPolymorphicFunc(call.ctx)).ok
                        <=> (PlaceholderCaseByParameter(pr) \/ SubtypeCase(pr)
                                \/ CastCase(pr))
                    /\ ~(PlaceholderCaseByParameter(pr) \/ SubtypeCase(pr)
                            \/ CastCase(pr)) => r = Bound(NO_MATCH)
            /\ (r.err = NoErr /\ r.call.args # None) =>
                    (r.call.used_implicit_casts <=>
                        \E pr \in TypePairs(func) :
                            /\ ~PlaceholderCaseByParameter(pr)
                            /\ ~SubtypeCase(pr)
                            /\ CastCase(pr))

\* C22, amended: the check of a pair is true exactly when the argument's
\* type is a placeholder, the call site is inside a polymorphic function and
\* the argument type resolves against the parameter type, or else the
\* argument type is a subtype of the parameter type, or else an implicit
\* cast exists; a candidate with a pair that fails the check is no match;
\* and a match has used_implicit_casts exactly when one of its pairs passed
\* by the cast case alone.
AssignableByArgumentPlaceholder ==
    \A i \in DOMAIN funcs :
        LET func == FuncOf(funcs[i])
            r == TryCandidate(i)
        IN  /\ \A pr \in TypePairs(func) :
                    /\ CheckType(InitialBindState, pr[1], pr[2],
                                 InPolymorphicFunc(call.ctx)).ok
                        <=> (PlaceholderCaseByArgument(pr) \/ SubtypeCase(pr)
                                \/ CastCase(pr))
                    /\ ~(PlaceholderCaseByArgument(pr) \/ SubtypeCase(pr)
                            \/ CastCase(pr)) => r = Bound(NO_MATCH)
            /\ (r.err = NoErr /\ r.call.args # None) =>
                    (r.call.used_implicit_casts <=>
                        \E pr \in TypePairs(func) :
                            /\ ~PlaceholderCaseByArgument(pr)
                            /\ ~SubtypeCase(pr)
                            /\ CastCase(pr))

\* Inside a polymorphic function a(any) was compiled and bound to
\* a(x: int64): the argument of placeholder type passed the check against
\* int64 without a cast.
PlaceholderArgumentAccepted ==
    /\ pc = "done"
    /\ call.func.name = "a"
    /\ InPolymorphicFunc(call.ctx)
    /\ Len(call.args) = 1
    /\ call.args[1].type = AnyType
    /\ outcome.err = NoErr
    /\ matched_call.func # None
    /\ matched_call.func[1].obj.id = 11
    /\ ~matched_call.used_implicit_casts

\* The candidate takes every argument of the call and has a default for
\* every parameter the call leaves out: binding reaches the defaults.
TakesArguments(func) ==
    /\ func.params # <<>>
    /\ \A i \in DOMAIN call.args : ArgParamType(func, i) # None
    /\ \A k \in DOMAIN call.kwargs : KwargParamType(func, k) # None
    /\ \A pr \in TypePairs(func) :
            /\ PlaceholderCaseByArgument(pr) \/ SubtypeCase(pr) \/ CastCase(pr)
            /\ \/ ~is_polymorphic(pr[2])
               \/ InPolymorphicFunc(call.ctx) /\ is_polymorphic(pr[1]) /\ pr[1] = pr[2]
               \/ resolve_polymorphic(pr[2], pr[1]) # None
    /\ Cardinality(Resolutions(func)) <= 1
    /\ \A j \in DOMAIN PositionalOf(func) :
            j > Len(call.args) => PositionalOf(func)[j].default # "none"
    /\ \A j \in DOMAIN NamedOnlyOf(func) :
            NamedOnlyOf(func)[j].name \notin DOMAIN call.kwargs =>
                NamedOnlyOf(func)[j].default # "none"

\* The parameters the call leaves to their defaults.
Defaulted(func) ==
    {PositionalOf(func)[j] : j \in {j \in DOMAIN PositionalOf(func) : j > Len(call.args)}}
    \cup {NamedOnlyOf(func)[j] :
            j \in {j \in DOMAIN NamedOnlyOf(func) :
                        NamedOnlyOf(func)[j].name \notin DOMAIN call.kwargs}}

\* A parameter left to its default is of type std::any and its default is
\* empty, and no argument of the call resolves the placeholder.
UnresolvedEmptyDefault(func) ==
    /\ \E q \in Defaulted(func) :
            /\ q.type = AnyType
            /\ func.language = "EdgeQL" \/ q.default = "empty"
    /\ Resolutions(func) = {}

\* C23: a candidate that takes the arguments of the call and leaves a
\* parameter of type std::any to an empty default, with the placeholder
\* unresolved, makes try_bind_func_args raise, not return no-match, and for
\* no other candidate is that error raised; compile_FunctionCall fails with
\* the error of the first candidate that raises, whatever matched before it
\* and whatever would match after it: a call with a candidate that raises
\* never succeeds.
UnresolvedDefaultRaises ==
    /\ \A i \in DOMAIN funcs :
            TryCandidate(i).err = "EdgeQLError: could not resolve std::any type"
                <=> (TakesArguments(FuncOf(funcs[i]))
                        /\ UnresolvedEmptyDefault(FuncOf(funcs[i])))
    /\ (pc = "done" /\ \E i \in DOMAIN funcs : TryCandidate(i).err # NoErr) =>
            /\ outcome.err # NoErr
            /\ outcome.node = None
            /\ \A i \in 1..(fi - 1) : TryCandidate(i).err = NoErr
            /\ TryCandidate(fi).err # NoErr => outcome = Failed(TryCandidate(fi).err)

\* z() was compiled: a first overload was bound, the next one tried left its
\* std::any parameter to an empty default and the call failed with its
\* error, while an overload not yet tried binds the call.
RaisedAfterMatch ==
    /\ pc = "done"
    /\ outcome = Failed("EdgeQLError: could not resolve std::any type")
    /\ matched_call.func # None
    /\ fi < Len(funcs)
    /\ \E j \in (fi + 1)..Len(funcs) :
            TryCandidate(j).err = NoErr /\ TryCandidate(j).call.args # None

(***************************************************************************)
(* Properties of overload resolution (BindSpec): the return type.           *)
(***************************************************************************)

\* C24: a candidate with a polymorphic declared return type matches only
\* when an argument resolved the placeholder, and the match returns the
\* declared type specialized to the resolved type; no match carries a
\* polymorphic return type; a declared return type that is not polymorphic
\* is returned as declared.
ReturnTypeResolved ==
    \A i \in DOMAIN funcs :
        LET func == FuncOf(funcs[i])
            r == TryCandidate(i)
        IN  (r.err = NoErr /\ r.call.args # None) =>
                /\ is_polymorphic(func.return_type) =>
                        /\ Resolutions(func) # {}
                        /\ \A t \in Resolutions(func) :
                                r.call.return_type =
                                    to_nonpolymorphic(func.return_type, t[1])
                /\ ~is_polymorphic(r.call.return_type)
                /\ ~is_polymorphic(func.return_type) =>
                        r.call.return_type = func.return_type

(***************************************************************************)
(* Properties of the catalog (Spec): the frame of set_field.                *)
(***************************************************************************)

\* The referrers entered for an identity under a key; none when there is no
\* entry.
ReferrersUnder(mm, id, key) ==
    IF id \in DOMAIN mm /\ key \in DOMAIN mm[id] THEN mm[id][key] ELSE {}

\* The keys an identity has referrers under.
KeysOf(mm, id) == IF id \in DOMAIN mm THEN DOMAIN mm[id] ELSE {}

\* What set_field of a reference field may change and what it leaves alone:
\* before and after are catalogs, old and new the identities the field of
\* object a referred to and refers to.
SetFieldFrame(before, after, a, field, old, new) ==
    LET key == <<before.id_to_type[a].cls, field>>
        sym == (old \ new) \cup (new \ old)
    IN  /\ \A id \in (DOMAIN before.refs_to \cup DOMAIN after.refs_to) \ sym :
                /\ id \in DOMAIN before.refs_to
                /\ id \in DOMAIN after.refs_to
                /\ after.refs_to[id] = before.refs_to[id]
        /\ \A id \in sym :
                /\ \A k \in (KeysOf(before.refs_to, id) \cup KeysOf(after.refs_to, id))
                                \ {key} :
                        ReferrersUnder(after.refs_to, id, k)
                            = ReferrersUnder(before.refs_to, id, k)
                /\ ReferrersUnder(after.refs_to, id, key) \ {a}
                        = ReferrersUnder(before.refs_to, id, key) \ {a}
        /\ \A id \in new \ old : a \in ReferrersUnder(after.refs_to, id, key)
        /\ \A id \in old \ new : a \notin ReferrersUnder(after.refs_to, id, key)
        /\ DOMAIN after.id_to_data = DOMAIN before.id_to_data
        /\ \A id \in DOMAIN before.id_to_data \ {a} :
                after.id_to_data[id] = before.id_to_data[id]
        /\ after.id_to_type = before.id_to_type
        /\ after.modules = before.modules
        /\ after.name_to_id = before.name_to_id
        /\ after.shortname_to_id = before.shortname_to_id

\* C25: set_field of a reference field of an object changes refs_to only
\* for the identities in the symmetric difference of what the field
\* referred to and what it refers to, and there only under the key
\* (type of the object, field), by entering or taking out the object; the
\* entries of all other identities and keys, the data of the other objects,
\* id_to_type, modules, name_to_id and shortname_to_id stay as they were.
SetFieldRefsFrame ==
    \A obj \in WorldObjects(world) :
        \A i \in DOMAIN get_object_fields(obj.cls) :
            \A value \in FieldValues(obj, get_object_fields(obj.cls)[i]) :
                LET field == get_object_fields(obj.cls)[i]
                    r == SetObjField(schema, obj.id, field, value)
                IN  r.err = NoErr =>
                        SetFieldFrame(schema, r.ret, obj.id, field,
                                      FieldRefIds(schema.id_to_data[obj.id], field),
                                      FieldRefIds(MapSet(EmptyMap, field, value), field))

\* The bases of a type are two types, both with other referrers or keys in
\* refs_to, and set_field can take one of them out and keep the other.
SetFieldKeepsShared ==
    \E obj \in WorldObjects(world) : \E value \in FieldValues(obj, "bases") :
        /\ obj.cls = "Type"
        /\ obj.id \in DOMAIN schema.id_to_data
        /\ FieldRefIds(schema.id_to_data[obj.id], "bases") = {T1.id, T2.id}
        /\ Cardinality(value.coll) = 1
        /\ SetObjField(schema, obj.id, "bases", value).err = NoErr
        /\ SetObjField(schema, obj.id, "bases", value).ret.refs_to # schema.refs_to
        /\ \E id \in value.coll : schema.refs_to[id] # EmptyMap

(***************************************************************************)
(* Properties of overload resolution (BindSpec): the order of the group.    *)
(***************************************************************************)

\* The candidates of the group that bind the call, by their place in the
\* order the group is iterated in.
BindingCandidates ==
    {i \in DOMAIN funcs :
        TryCandidate(i).err = NoErr /\ TryCandidate(i).call.args # None}

\* The first of a non-empty set of places.
FirstOf(S) == CHOOSE i \in S : \A j \in S : i <= j

\* The call has an argument, two or more candidates bind it and the
\* implicit-cast rule prefers none of them to the first: all used a cast, or
\* the first used none.
NoPreferredCandidate ==
    /\ pc = "done"
    /\ call.args # <<>> \/ call.kwargs # EmptyMap
    /\ Cardinality(BindingCandidates) >= 2
    /\ \/ \A i \in BindingCandidates : TryCandidate(i).call.used_implicit_casts
       \/ ~TryCandidate(FirstOf(BindingCandidates)).call.used_implicit_casts

\* The call node is built from the first candidate that bound.
FirstMatchSelected ==
    /\ outcome.err = NoErr
    /\ matched_call = TryCandidate(FirstOf(BindingCandidates)).call
    /\ outcome.node[1].func = FuncOf(funcs[FirstOf(BindingCandidates)])

VariadicArgs(func) ==
    IF VariadicOf(func) = <<>> THEN {}
    ELSE {k \in DOMAIN call.args : k > Len(PositionalOf(func))}

\* The argument fits the element type of the VARIADIC parameter: it is
\* assignable to it and does not leave the placeholder unresolved.
FitsElement(func, k) ==
    LET pr == <<call.args[k].type, Ty(VariadicOf(func)[1].type.elem)>>
    IN  /\ PlaceholderCaseByArgument(pr) \/ SubtypeCase(pr) \/ CastCase(pr)
        /\ \/ ~is_polymorphic(pr[2])
           \/ InPolymorphicFunc(call.ctx) /\ is_polymorphic(pr[1]) /\ pr[1] = pr[2]
           \/ resolve_polymorphic(pr[2], pr[1]) # None

\* C27: when the call has more positional arguments than the candidate has
\* POSITIONAL parameters and the candidate has a VARIADIC one, every such
\* argument is checked against the element type of the VARIADIC parameter:
\* one that does not fit it, or that gives the placeholder another type than
\* an earlier argument, makes the candidate no match; a match binds all of
\* them, in the order of the call, after the arguments of the other
\* parameters, and none of them to a parameter declared after the VARIADIC
\* one.
VariadicTakesTheRest ==
    \A i \in DOMAIN funcs :
        LET func == FuncOf(funcs[i])
            r == TryCandidate(i)
            n == Len(PositionalOf(func))
            m == Cardinality(VariadicArgs(func))
        IN  VariadicArgs(func) # {} =>
                /\ (\/ \E k \in VariadicArgs(func) : ~FitsElement(func, k)
                    \/ Cardinality(Resolutions(func)) > 1) => r = Bound(NO_MATCH)
                /\ (r.err = NoErr /\ r.call.args # None) =>
                        LET bound == r.call.args[1]
                            prefix == IF func.language = "EdgeQL" THEN 1 ELSE 0
                        IN  /\ Len(bound) = prefix + Len(NamedOnlyOf(func)) + n + m
                            /\ \A k \in 1..m :
                                    bound[Len(bound) - m + k] = call.args[n + k].val
                            /\ ~r.call.has_empty_variadic

\* s(str, str) was compiled: s(VARIADIC y: array<str>) took both arguments,
\* the second one after the check of lines 295-300.
VariadicTookTwo ==
    /\ pc = "done"
    /\ outcome.err = NoErr
    /\ Len(call.args) = 2
    /\ matched_call.func # None
    /\ matched_call.func[1].obj.id = 91
    /\ matched_call.args = Some(<<call.args[1].val, call.args[2].val>>)

(***************************************************************************)
(* Properties of overload resolution (BindSpec): the defaults bitmask.      *)
(***************************************************************************)

\* C28: no binding fails while the defaults bitmask of a query-language
\* function is encoded: the mask fits the nparams // 8 + 1 bytes it is
\* converted to, and the bytes can be decoded as the text of the byte-string
\* constant.
MaskAlwaysEncodes ==
    \A i \in DOMAIN funcs :
        TryCandidate(i).err \notin {"OverflowError", "UnicodeDecodeError"}

(***************************************************************************)
(* Properties of overload resolution (BindSpec): the bound arguments.       *)
(***************************************************************************)

\* What a parameter of the candidate is bound to: the argument the call
\* supplies for it, or the mark of a default.
DefaultMark(param) == <<"default", param.name>>
MarkOf(v) ==
    IF v.tag \in {"empty_set", "ir_default"} THEN <<"default", v.name>> ELSE v

NamedOnlyBinding(func) ==
    [j \in DOMAIN NamedOnlyOf(func) |->
        IF NamedOnlyOf(func)[j].name \in DOMAIN call.kwargs
        THEN call.kwargs[NamedOnlyOf(func)[j].name].val
        ELSE DefaultMark(NamedOnlyOf(func)[j])]

PositionalBinding(func) ==
    [j \in DOMAIN PositionalOf(func) |->
        IF j <= Len(call.args) THEN call.args[j].val
        ELSE DefaultMark(PositionalOf(func)[j])]

VariadicBinding(func) ==
    IF VariadicOf(func) = <<>> \/ Len(call.args) <= Len(PositionalOf(func))
    THEN <<>>
    ELSE [k \in 1..(Len(call.args) - Len(PositionalOf(func))) |->
            call.args[Len(PositionalOf(func)) + k].val]

\* C29: a match of a function with parameters binds, after the bitmask of a
\* query-language function, the NAMED_ONLY parameters in parameter order,
\* then the POSITIONAL ones in order, then the arguments of the VARIADIC
\* parameter in the order of the call: each the argument supplied for it or
\* the default of a parameter left out, every supplied argument once and
\* nothing else; and a call with more positional arguments than the
\* POSITIONAL parameters of a candidate without a VARIADIC one is no match.
BoundArgumentsLayout ==
    \A i \in DOMAIN funcs :
        LET func == FuncOf(funcs[i])
            r == TryCandidate(i)
        IN  /\ (func.params # <<>> /\ r.err = NoErr /\ r.call.args # None) =>
                    LET bound == IF func.language = "EdgeQL"
                                 THEN Tail(r.call.args[1]) ELSE r.call.args[1]
                    IN  /\ [k \in DOMAIN bound |-> MarkOf(bound[k])]
                                = NamedOnlyBinding(func) \o PositionalBinding(func)
                                    \o VariadicBinding(func)
                        /\ \A k \in DOMAIN call.kwargs :
                                Cardinality({b \in DOMAIN bound :
                                                bound[b] = call.kwargs[k].val}) = 1
                        /\ \A a \in DOMAIN call.args :
                                Cardinality({b \in DOMAIN bound :
                                                bound[b] = call.args[a].val}) = 1
            /\ (Len(call.args) > Len(PositionalOf(func)) /\ VariadicOf(func) = <<>>) =>
                    r = Bound(NO_MATCH)

\* v("s", "t", z := 1) was compiled to v(x: str = ..., VARIADIC y:
\* array<str>, NAMED ONLY z: int64 = ...): after the bitmask the named
\* argument is bound first, then the argument of x, then the one of y.
NamedBoundBeforePositional ==
    /\ pc = "done"
    /\ outcome.err = NoErr
    /\ matched_call.func # None
    /\ matched_call.func[1].obj.id = 43
    /\ Len(call.args) = 2
    /\ "z" \in DOMAIN call.kwargs
    /\ Tail(matched_call.args[1])
            = <<call.kwargs["z"].val, call.args[1].val, call.args[2].val>>
====
